---------------------------- MODULE Spec2Model ----------------------------
(***************************************************************************)
(* A model of the Desert-Habitat-Interactionator simulation.               *)
(*                                                                         *)
(*   - SpecScent : the ScentField of src/scent.py (emit / diffuse /        *)
(*                 update) on a small grid.                                *)
(*   - Spec      : the main loop of src/main.py over a small world: one    *)
(*                 Creature.update (src/creature.py) per step of the pass, *)
(*                 then the corpses and the pruning that end the tick.     *)
(*                                                                         *)
(* Real numbers are fixed-point integers.  A scent concentration c is the  *)
(* integer c * SCALE; a strength s is the integer s * 100.                 *)
(***************************************************************************)
EXTENDS Integers, Sequences, FiniteSets, TLC

VARIABLES
    maps,       \* ScentField.maps : scent type -> grid (row, col) -> value
    hist,       \* the calls made on the ScentField so far: how many, and
                \* the last one
    cr,         \* the Creature objects ever constructed, by id
    creatures,  \* main: the population list (ids)
    foods,      \* main: the list of Food objects
    corpses,    \* main: the list of Corpse objects
    score,      \* Nest.score by nest type
    phase,      \* main loop: "idle" between ticks, "pass" inside the for loop
    idx,        \* position of the for loop in creatures
    tick,       \* number of ticks begun
    cur_dt,     \* main: the dt of the current tick
    newly_dead, \* main: the creatures that died in their own update this tick
    last        \* history: what the last update did

scentVars == <<maps, hist>>
worldVars == <<cr, creatures, foods, corpses, score, phase, idx, tick, cur_dt, newly_dead, last>>
vars == <<maps, hist, cr, creatures, foods, corpses, score, phase, idx, tick, cur_dt,
          newly_dead, last>>

\* the world before main() has built it
WorldOff ==
    /\ cr = << >> /\ creatures = << >> /\ foods = << >> /\ corpses = << >>
    /\ score = << >> /\ phase = "off" /\ idx = 0 /\ tick = 0 /\ cur_dt = 0
    /\ newly_dead = << >> /\ last = << >>

(***************************************************************************)
(* utils.py                                                                *)
(***************************************************************************)
Max2(a, b) == IF a >= b THEN a ELSE b
Min2(a, b) == IF a <= b THEN a ELSE b

\* clamp(x, lo, hi) = max(lo, min(hi, x))
clamp(x, lo, hi) == Max2(lo, Min2(hi, x))

(***************************************************************************)
(* scent.py                                                                *)
(***************************************************************************)
\* one unit of concentration (1.0) in fixed point
SCALE == 100 * 1000

CELL_SIZE == 25
\* DIFFUSE_RATE = 0.22, in hundredths
DIFFUSE_RATE == 22
\* DECAY_RATE = 0.025, in thousandths
DECAY_RATE == 25

\* the field is FieldCells x FieldCells cells: ScentField(width, height) with
\* width = height = FieldCells * CELL_SIZE
FieldCells == 5
FieldWidth == FieldCells * CELL_SIZE
FieldHeight == FieldCells * CELL_SIZE

cols == FieldWidth \div CELL_SIZE
rows == FieldHeight \div CELL_SIZE

ScentTypes == {"food", "pred", "prey", "toxin", "corpse"}
Cells == (0 .. rows - 1) \X (0 .. cols - 1)
ZeroGrid == [rc \in Cells |-> 0]

\* ScentField.__init__: five all-zero layers
ScentInit == [t \in ScentTypes |-> ZeroGrid]

\* the cell index int(x // CELL_SIZE) (floor division, also for x < 0)
CellOf(x) == x \div CELL_SIZE

\* emit without the lower bounds of its range test: a negative index counts
\* from the end of the array, as a numpy index does
emit_wrapping(m, x, y, scent_type, strength) ==
    IF scent_type \notin DOMAIN m
    THEN m
    ELSE LET c == CellOf(x)
             r == CellOf(y)
             cell == <<r % rows, c % cols>>
         IN IF r < rows /\ c < cols
            THEN [m EXCEPT ![scent_type][cell] =
                     clamp(m[scent_type][cell] + strength * 9 * (SCALE \div 1000),
                           0, SCALE)]
            ELSE m

\* emit with the clamp left out
emit_unclamped(m, x, y, scent_type, strength) ==
    IF scent_type \notin DOMAIN m
    THEN m
    ELSE LET c == CellOf(x)
             r == CellOf(y)
         IN IF 0 <= r /\ r < rows /\ 0 <= c /\ c < cols
            THEN [m EXCEPT ![scent_type][<<r, c>>] =
                     m[scent_type][<<r, c>>] + strength * 9 * (SCALE \div 1000)]
            ELSE m

\* ScentField.emit: the maps after emit(x, y, scent_type, strength)
emit(m, x, y, scent_type, strength) ==
    IF scent_type \notin DOMAIN m
    THEN m
    ELSE LET c == CellOf(x)
             r == CellOf(y)
         IN IF 0 <= r /\ r < rows /\ 0 <= c /\ c < cols
            THEN [m EXCEPT ![scent_type][<<r, c>>] =
                     clamp(m[scent_type][<<r, c>>] + strength * 9 * (SCALE \div 1000),
                           0, SCALE)]
            ELSE m

IsInterior(r, c) == 1 <= r /\ r < rows - 1 /\ 1 <= c /\ c < cols - 1

\* the spreading step with the two horizontal neighbours left out
Spread_vertical_only(grid) ==
    [rc \in Cells |->
        IF IsInterior(rc[1], rc[2])
        THEN grid[rc] + (DIFFUSE_RATE *
                 ( grid[<<rc[1] - 1, rc[2]>>] + grid[<<rc[1] + 1, rc[2]>>]
                 - 4 * grid[rc])) \div 100
        ELSE grid[rc]]

\* diffuse, first statement: new_grid[1:-1,1:-1] += DIFFUSE_RATE * (4 neighbours - 4 self)
Spread(grid) ==
    [rc \in Cells |->
        IF IsInterior(rc[1], rc[2])
        THEN grid[rc] + (DIFFUSE_RATE *
                 ( grid[<<rc[1] - 1, rc[2]>>] + grid[<<rc[1] + 1, rc[2]>>]
                 + grid[<<rc[1], rc[2] - 1>>] + grid[<<rc[1], rc[2] + 1>>]
                 - 4 * grid[rc])) \div 100
        ELSE grid[rc]]

\* decay = DECAY_RATE * (0.4 if grid is the corpse layer else 1.0), in ten-thousandths
DecayOf(isCorpse) == IF isCorpse THEN DECAY_RATE * 4 ELSE DECAY_RATE * 10

\* the decay step multiplying by (1.0 + decay)
Decay_growing(grid, isCorpse) ==
    [rc \in Cells |-> (grid[rc] * (10000 + DecayOf(isCorpse))) \div 10000]

\* diffuse, second statement: new_grid *= (1.0 - decay)
Decay(grid, isCorpse) ==
    [rc \in Cells |-> (grid[rc] * (10000 - DecayOf(isCorpse))) \div 10000]

\* diffuse, third statement: np.clip(new_grid, 0, 1.0)
Clip(grid) == [rc \in Cells |-> clamp(grid[rc], 0, SCALE)]

\* ScentField.diffuse
diffuse(grid, isCorpse) == Clip(Decay(Spread(grid), isCorpse))

\* ScentField.update: every layer is replaced by its diffusion
update(m) == [t \in DOMAIN m |-> diffuse(m[t], t = "corpse")]

\* what sample_gradient returns for "no gradient" (None)
NoGradient == << >>

\* sample_gradient returning None as soon as the horizontal difference is zero
sample_gradient_dx_only(m, x, y, scent_type) ==
    IF scent_type \notin DOMAIN m
    THEN NoGradient
    ELSE LET c == CellOf(x)
             r == CellOf(y)
         IN IF ~(1 <= r /\ r < rows - 1 /\ 1 <= c /\ c < cols - 1)
            THEN NoGradient
            ELSE LET dx == m[scent_type][<<r, c + 1>>] - m[scent_type][<<r, c - 1>>]
                     dy == m[scent_type][<<r + 1, c>>] - m[scent_type][<<r - 1, c>>]
                 IN IF dx = 0 THEN NoGradient ELSE <<dx, dy>>

\* sample_gradient with the differences taken the other way round
sample_gradient_reversed(m, x, y, scent_type) ==
    IF scent_type \notin DOMAIN m
    THEN NoGradient
    ELSE LET c == CellOf(x)
             r == CellOf(y)
         IN IF ~(1 <= r /\ r < rows - 1 /\ 1 <= c /\ c < cols - 1)
            THEN NoGradient
            ELSE LET dx == m[scent_type][<<r, c - 1>>] - m[scent_type][<<r, c + 1>>]
                     dy == m[scent_type][<<r - 1, c>>] - m[scent_type][<<r + 1, c>>]
                 IN IF dx = 0 /\ dy = 0 THEN NoGradient ELSE <<dx, dy>>

\* ScentField.sample_gradient: the pair (dx, dy) of central differences at the
\* cell of (x, y), or NoGradient
sample_gradient(m, x, y, scent_type) ==
    IF scent_type \notin DOMAIN m
    THEN NoGradient
    ELSE LET c == CellOf(x)
             r == CellOf(y)
         IN IF ~(1 <= r /\ r < rows - 1 /\ 1 <= c /\ c < cols - 1)
            THEN NoGradient
            ELSE LET dx == m[scent_type][<<r, c + 1>>] - m[scent_type][<<r, c - 1>>]
                     dy == m[scent_type][<<r + 1, c>>] - m[scent_type][<<r - 1, c>>]
                 IN IF dx = 0 /\ dy = 0 THEN NoGradient ELSE <<dx, dy>>

RECURSIVE SumOver(_, _)
SumOver(grid, S) ==
    IF S = {} THEN 0
    ELSE LET rc == CHOOSE e \in S : TRUE
         IN grid[rc] + SumOver(grid, S \ {rc})

\* the total mass of a grid
Mass(grid) == SumOver(grid, Cells)

(***************************************************************************)
(* SpecScent: any sequence of at most MaxOps emit / update calls           *)
(***************************************************************************)
MaxOps == 3

\* positions: x outside the field, in a border column, in an interior column
\* next to the border, in the centre column; y in a border row, in the centre row
EmitXs == {-5, 10, 30, 60}
EmitYs == {10, 60}
\* strengths, in hundredths: negative, 1.0, above 1
EmitStrengths == {-50, 100, 150}
\* "decomp" is the decomposers' own scent_type, which has no layer
EmitTypes == {"food", "corpse", "decomp"}

NoCall == [op |-> "none", x |-> 0, y |-> 0, t |-> "", s |-> 0]
UpdateCall == [op |-> "update", x |-> 0, y |-> 0, t |-> "", s |-> 0]
EmitCall(x, y, t, s) == [op |-> "emit", x |-> x, y |-> y, t |-> t, s |-> s]

\* positions sampled: x outside the field, in the first column, in two
\* interior columns, in the last column; y in a border row, in two interior rows
SampleXs == {-5, 10, 30, 60, 110}
SampleYs == {10, 30, 60}
\* a layer at every position; "decomp", which has no layer, at the centre
Samples ==
    {<<x, y, "food">> : x \in SampleXs, y \in SampleYs} \cup {<<60, 60, "decomp">>}
\* a call of sample_gradient and the value g it returned
SampleCall(x, y, t, g) == [op |-> "sample", x |-> x, y |-> y, t |-> t, s |-> 0, g |-> g]

Record(h, call) == [n |-> h.n + 1, last |-> call]

InitScent ==
    /\ maps = ScentInit
    /\ hist = [n |-> 0, last |-> NoCall]
    /\ WorldOff

Emit ==
    /\ hist.n < MaxOps
    /\ \E x \in EmitXs, y \in EmitYs, t \in EmitTypes, s \in EmitStrengths :
          /\ maps' = emit(maps, x, y, t, s)
          /\ hist' = Record(hist, EmitCall(x, y, t, s))
    /\ UNCHANGED worldVars

Update ==
    /\ hist.n < MaxOps
    /\ maps' = update(maps)
    /\ hist' = Record(hist, UpdateCall)
    /\ UNCHANGED worldVars

\* a call of sample_gradient: it reads the layer and assigns nothing
Sample ==
    /\ hist.n < MaxOps
    /\ \E q \in Samples :
          hist' = Record(hist, SampleCall(q[1], q[2], q[3],
                                          sample_gradient(maps, q[1], q[2], q[3])))
    /\ maps' = maps
    /\ UNCHANGED worldVars

NextScent == Emit \/ Update \/ Sample

SpecScent == InitScent /\ [][NextScent]_vars

(***************************************************************************)
(* The world: creatures, foods, corpses, nests (creature.py, nest.py,      *)
(* entities.py, main.py)                                                   *)
(*                                                                         *)
(* Units.  time: tenths of a second.  energy: hundredths.  genome traits   *)
(* (size, speed, vision, metabolism, aggression, toxin): hundredths.       *)
(* priorities and mate_drive: thousandths.  positions: pixels.             *)
(*                                                                         *)
(* Positions are points of a finite lattice; a movement step goes to the   *)
(* farthest lattice point within the step length in the heading of the     *)
(* update.  The heading (vx, vy) itself is not tracked: it is an input of  *)
(* each update, as are the random draws.  The scent field is not part of   *)
(* the world model (see SpecScent); what an agent reads from it is an      *)
(* input of the update.                                                    *)
(***************************************************************************)

\* ---- config.py (not part of the sources: values chosen for the model) ----
WIDTH == 1000
HEIGHT == 600
FPS == 60
BASE_RADIUS == 10
CREATURE_BASE_SPEED == 60
DECOMPOSER_BASE_SPEED == 40
\* CARRY_SLOWDOWN = 0.8, in hundredths
CARRY_SLOWDOWN == 80
ENERGY_BASE_MAX == 100
\* ENERGY_IDLE_COST = 0.5 / s, ENERGY_MOVE_COST = 1.0 / s, in hundredths
ENERGY_IDLE_COST == 50
ENERGY_MOVE_COST == 100
\* LOW_ENERGY_THRESH = 30 energy, in hundredths
LOW_ENERGY_THRESH == 3000
\* MATE_DRIVE_RATE = 0.05 / s: thousandths per tenth of a second
MATE_DRIVE_RATE == 5
\* CALL_DURATION = RESPONSE_CALL_DURATION = 1.5 s, CALL_COOLDOWN = 6.0 s
CALL_DURATION == 15
RESPONSE_CALL_DURATION == 15
CALL_COOLDOWN == 60
\* TOXIN_THRESHOLD = 0.5, in thousandths; TOXIN_DURATION = 5 s
TOXIN_THRESHOLD == 500
TOXIN_DURATION == 50
\* MATING_COST = 0.3, MATING_ENERGY_REQ = 0.7, in thousandths
MATING_COST == 300
MATING_ENERGY_REQ == 700
\* PREDATION_GAIN = 40 energy, ENERGY_DELIVERY_REWARD = 30 energy, in hundredths
PREDATION_GAIN == 4000
ENERGY_DELIVERY_REWARD == 3000
PICKUP_DIST == 10
DROP_DIST == 20
\* PLANT_SPAWN_ENERGY = 40 energy, in hundredths
PLANT_SPAWN_ENERGY == 4000
\* PREDATION_SIZE_RATIO = 1.2, in hundredths
PREDATION_SIZE_RATIO == 120
RESPAWN_FOOD_ON_DELIVER == TRUE
\* CORPSE_ENERGY_MULTIPLIER = 0.5, in hundredths
CORPSE_ENERGY_MULTIPLIER == 50

\* ---- geometry ----
Abs(a) == IF a < 0 THEN -a ELSE a

\* the integer square root of n, for 0 <= n < (WIDTH + HEIGHT)^2, by bisection
RECURSIVE Bisect(_, _, _)
Bisect(n, lo, hi) ==
    IF lo >= hi THEN lo
    ELSE LET mid == (lo + hi + 1) \div 2
         IN IF mid * mid <= n THEN Bisect(n, mid, hi) ELSE Bisect(n, lo, mid - 1)

Isqrt(n) == Bisect(n, 0, WIDTH + HEIGHT)

\* utils.dist: math.hypot(ax - bx, ay - by), to the pixel
dist(ax, ay, bx, by) ==
    IF ax = bx THEN Abs(ay - by)
    ELSE IF ay = by THEN Abs(ax - bx)
    ELSE Isqrt((ax - bx) * (ax - bx) + (ay - by) * (ay - by))

\* ---- nest.py ----
\* NestManager.__init__: the static layout, in this order
nests == <<
    [x |-> (WIDTH * 2) \div 10, y |-> (HEIGHT * 5) \div 10, radius |-> 90, type |-> "prey"],
    [x |-> (WIDTH * 8) \div 10, y |-> (HEIGHT * 5) \div 10, radius |-> 90, type |-> "predator"],
    [x |-> (WIDTH * 5) \div 10, y |-> (HEIGHT * 2) \div 10, radius |-> 90, type |-> "decomposer"] >>

NestTypes == {"prey", "predator", "decomposer"}

\* Nest.contains
contains(nest, c) == dist(nest.x, nest.y, c.x, c.y) <= nest.radius

\* NestManager.can_enter
can_enter(c, nest) ==
    IF nest.type = "decomposer"
    THEN c.genome.is_decomposer \/ c.genome.aggression <= 60
    ELSE IF nest.type = "predator"
    THEN c.genome.aggression > 60 /\ ~c.genome.is_decomposer
    ELSE IF nest.type = "prey"
    THEN c.genome.aggression <= 60 \/ c.genome.is_decomposer
    ELSE FALSE

NestOfType(t) == nests[CHOOSE k \in DOMAIN nests : nests[k].type = t]

\* NestManager.get_nest (the layout holds a nest of every type, so it never
\* returns None)
get_nest(c) ==
    IF c.genome.is_decomposer THEN NestOfType("decomposer")
    ELSE IF c.genome.aggression > 60 THEN NestOfType("predator")
    ELSE NestOfType("prey")

\* NestManager.is_safe_zone
is_safe_zone(c1, c2) ==
    \E k \in DOMAIN nests :
        /\ contains(nests[k], c1)
        /\ contains(nests[k], c2)
        /\ nests[k].type \in {"prey", "predator"}
        /\ can_enter(c1, nests[k])
        /\ can_enter(c2, nests[k])

\* ---- the lattice of positions ----
\* on the line through the prey and predator nests: the prey nest's centre,
\* two points inside it, two outside; the field's centre; the same mirrored for
\* the predator nest.  On the line through the decomposer nest: its centre, two
\* points inside, one outside.
Points ==
    { <<200, 300>>, <<220, 300>>, <<260, 300>>, <<320, 300>>, <<340, 300>>,
      <<500, 300>>,
      <<680, 300>>, <<740, 300>>, <<780, 300>>, <<800, 300>>,
      <<500, 120>>, <<500, 140>>, <<500, 180>>, <<500, 240>> }

Headings == {"E", "W", "N", "S"}

\* q lies in heading hd from p
Ahead(p, q, hd) ==
    IF hd = "E" THEN q[2] = p[2] /\ q[1] > p[1]
    ELSE IF hd = "W" THEN q[2] = p[2] /\ q[1] < p[1]
    ELSE IF hd = "S" THEN q[1] = p[1] /\ q[2] > p[2]
    ELSE q[1] = p[1] /\ q[2] < p[2]

\* the farthest lattice point within step of p in heading hd (p when none)
Advance(p, hd, step) ==
    LET cand == {q \in Points : Ahead(p, q, hd) /\ dist(p[1], p[2], q[1], q[2]) <= step}
    IN IF cand = {} THEN p
       ELSE CHOOSE q \in cand :
              \A o \in cand : dist(p[1], p[2], o[1], o[2]) <= dist(p[1], p[2], q[1], q[2])

\* ---- creature.py: construction, speed, movement ----
\* Creature.__init__ with the genome given; energy and call_cooldown are the
\* random draws uniform(0.6 * energy_max, energy_max) and uniform(0, CALL_COOLDOWN)
Creature(x, y, genome, energy, call_cooldown) ==
    [ x |-> x, y |-> y,
      vmag |-> 100,                \* |(vx, vy)| in hundredths: a unit vector
      carrying |-> FALSE,
      target_food |-> 0,           \* index into foods, 0 for None
      alive |-> TRUE,
      ready_to_mate |-> FALSE,
      calling |-> FALSE,
      call_timer |-> 0,
      mate_drive |-> 0,
      responding |-> FALSE,
      response_timer |-> 0,
      partner |-> 0,               \* creature id, 0 for None
      call_cooldown |-> call_cooldown,
      heard_call |-> 0,            \* creature id, 0 for None
      genome |-> genome,
      energy_max |-> ENERGY_BASE_MAX * genome.size,
      energy |-> energy,
      generation |-> 0,
      toxin_cooldown |-> 0,
      digest_timer |-> 0,          \* absent attribute = 0
      mate_attempt_timer |-> 0,    \* absent attribute = 0
      born |-> 0,                  \* history: the tick of construction
      updates |-> 0,               \* history: live updates run in the tick of construction
      starved |-> FALSE ]          \* history: the drain once left energy <= 0

\* self.radius = BASE_RADIUS * size, in hundredths of a pixel
radius(c) == BASE_RADIUS * c.genome.size

\* self.base_speed, in hundredths of a pixel per second
base_speed(c) ==
    IF c.genome.is_decomposer THEN DECOMPOSER_BASE_SPEED * 100
    ELSE CREATURE_BASE_SPEED * c.genome.speed

\* Creature.speed (property), in hundredths of a pixel per second
speed(c) ==
    LET s == (base_speed(c) * (IF c.carrying THEN CARRY_SLOWDOWN ELSE 100)) \div 100
    IN IF c.energy < LOW_ENERGY_THRESH
       THEN (s * ((65 * LOW_ENERGY_THRESH + 35 * c.energy) \div LOW_ENERGY_THRESH)) \div 100
       ELSE s

\* step = speed * dt for an update's dt (tenths of a second), scaled by |v|
StepOf(c, dt) == (speed(c) * dt * c.vmag) \div 100000
\* step = speed * (1 / FPS)
FrameStepOf(c) == (speed(c) * c.vmag) \div (10000 * FPS)

\* the lattice point nearest to p that is outside nest's wall for c
PushOut(nest, c, p) ==
    LET legal == {q \in Points :
                    100 * dist(nest.x, nest.y, q[1], q[2])
                        >= 100 * (nest.radius + 2) + radius(c)}
    IN CHOOSE q \in legal :
          \A o \in legal : dist(p[1], p[2], q[1], q[2]) <= dist(p[1], p[2], o[1], o[2])

\* NestManager.check_wall_collision: the nests in order, each pushing the
\* position out (radially, to the lattice) when c may not enter it
RECURSIVE WallFrom(_, _, _)
WallFrom(c, p, k) ==
    IF k > Len(nests) THEN p
    ELSE IF can_enter(c, nests[k]) THEN WallFrom(c, p, k + 1)
    ELSE IF 100 * dist(nests[k].x, nests[k].y, p[1], p[2]) < 100 * nests[k].radius + radius(c)
    THEN WallFrom(c, PushOut(nests[k], c, p), k + 1)
    ELSE WallFrom(c, p, k + 1)

check_wall_collision(c, p) == WallFrom(c, p, 1)

\* Creature.move(dt, nests): step is speed * dt; withNests tells whether nests
\* was passed.  The lattice lies inside the world, so the boundary reflection
\* only clamps.
move(c, step, withNests, hd) ==
    LET p0 == Advance(<<c.x, c.y>>, hd, step)
        p1 == IF withNests THEN check_wall_collision(c, p0) ELSE p0
    IN [c EXCEPT !.x = clamp(p1[1], 0, WIDTH), !.y = clamp(p1[2], 0, HEIGHT)]

\* Creature.seek: the heading is blended and normalised to unit length
seek(c) == [c EXCEPT !.vmag = 100]

\* Creature.wander: dt exceeds every value wander_t can hold (at most 2.0 s),
\* so the heading is redrawn and normalised at every call
wander(c) == [c EXCEPT !.vmag = 100]

\* ---- the world an update works on ----
\* cr : id -> creature object (dead ones stay reachable through partner
\* references); creatures: the population list (ids); foods, corpses: lists of
\* records; score: nest type -> deliveries
FirstOf(seq, S) ==
    IF S = {} THEN 0 ELSE seq[CHOOSE k \in S : \A j \in S : k <= j]

\* Creature.find_predator: the first creature of the list that threatens me
find_predator(W, me) ==
    LET self == W.cr[me]
        hit == {k \in DOMAIN W.creatures :
                  LET c == W.cr[W.creatures[k]]
                  IN /\ W.creatures[k] # me
                     /\ c.alive
                     /\ ~is_safe_zone(self, c)
                     /\ 100 * c.genome.size >= self.genome.size * PREDATION_SIZE_RATIO
                     /\ c.genome.aggression > 60
                     /\ 100 * dist(self.x, self.y, c.x, c.y) < self.genome.vision}
    IN FirstOf(W.creatures, hit)

\* Creature.get_escape_priority, in thousandths
get_escape_priority(W, me) ==
    LET self == W.cr[me]
        pred == find_predator(W, me)
    IN IF pred = 0 THEN 0
       ELSE clamp(1000 - (100000 * dist(self.x, self.y, W.cr[pred].x, W.cr[pred].y))
                            \div self.genome.vision, 0, 1000)

\* Creature.get_gather_priority, in thousandths; noise is uniform(-0.05, 0.05)
get_gather_priority(self, noise) ==
    clamp((1500 * (self.energy_max - self.energy)) \div self.energy_max + noise, 0, 1500)

\* Creature.get_mate_priority
get_mate_priority(self) == IF ~self.alive THEN 0 ELSE self.mate_drive

\* max(priorities, key=priorities.get): the first key holding the maximum, in
\* the order escape, gather, mate
ArgMax(escape_p, gather_p, mate_p) ==
    IF escape_p >= gather_p /\ escape_p >= mate_p THEN "escape"
    ELSE IF gather_p >= mate_p THEN "gather"
    ELSE "mate"

\* the starvation test with a quarter of energy_max for its limit
Starving_quarter(self) == 100 * self.energy < 25 * self.energy_max

\* line 256: energy is critically low
Starving(self) == 100 * self.energy < 35 * self.energy_max

\* the toxin override raising escape to 1.5 only
ToxinOverride_weak(self, escape_p) ==
    IF self.genome.is_decomposer /\ escape_p > TOXIN_THRESHOLD THEN 1500 ELSE escape_p

\* lines 267-268: a decomposer whose escape priority exceeds the toxin
\* threshold gets the escape priority 1.8
ToxinOverride(self, escape_p) ==
    IF self.genome.is_decomposer /\ escape_p > TOXIN_THRESHOLD THEN 1800 ELSE escape_p

\* Creature.decide_behavior: the world after it (a starving agent breaks its
\* pairing), the behaviour chosen and the escape priority stored
decide_behavior(W, me, noise) ==
    LET self == W.cr[me]
        escape0 == get_escape_priority(W, me)
        gather0 == get_gather_priority(self, noise)
        mate0 == get_mate_priority(self)
        full == self.genome.is_decomposer /\ 10 * self.energy >= 9 * self.energy_max
        gather1 == IF full THEN 0 ELSE gather0
        mate1 == IF full THEN 1500 ELSE mate0
        starving == Starving(self)
        gather2 == IF starving THEN Max2(gather1, 1600) ELSE gather1
        W1 == IF starving /\ self.partner # 0
              THEN [W EXCEPT !.cr[me].partner = 0,
                             !.cr[me].heard_call = 0,
                             !.cr[self.partner].partner = 0,
                             !.cr[self.partner].heard_call = 0]
              ELSE W
        escape1 == ToxinOverride(self, escape0)
    IN [W |-> W1, behavior |-> ArgMax(escape1, gather2, mate1), escape |-> escape1]

\* ---- entities.py ----
\* Food(x, y); energy is the attribute digest_and_poop adds (0 when absent)
Food(x, y, energy) == [x |-> x, y |-> y, alive |-> TRUE, energy |-> energy]

\* consume that takes the whole amount asked for, whatever is left
consume_greedy(corpse, amount) ==
    LET left == corpse.energy - amount
    IN [corpse EXCEPT
          !.energy = left,
          !.radius = Max2(200, (corpse.radius * Isqrt((10000 * Max2(left, 0))
                                                          \div corpse.max_energy)) \div 100),
          !.alive = IF left <= 0 THEN FALSE ELSE corpse.alive]

\* Corpse.consume: the corpse after consume(amount); the amount returned is
\* min(amount, energy).  radius is in hundredths of a pixel.
consume(corpse, amount) ==
    LET actual == Min2(amount, corpse.energy)
        left == corpse.energy - actual
    IN [corpse EXCEPT
          !.energy = left,
          !.radius = Max2(200, (corpse.radius * Isqrt((10000 * left) \div corpse.max_energy))
                                  \div 100),
          !.alive = IF left <= 0 THEN FALSE ELSE corpse.alive]

\* ---- creature.py: foraging ----
Dist2(ax, ay, bx, by) == (ax - bx) * (ax - bx) + (ay - by) * (ay - by)

\* Creature.find_nearest_food: index of the nearest living food within twice
\* the vision (the first of the list among equals), 0 for None
find_nearest_food(W, me) ==
    LET self == W.cr[me]
        ok == {k \in DOMAIN W.foods :
                 /\ W.foods[k].alive
                 /\ 100 * dist(self.x, self.y, W.foods[k].x, W.foods[k].y)
                        < 2 * self.genome.vision}
        d2(k) == Dist2(self.x, self.y, W.foods[k].x, W.foods[k].y)
        best == {k \in ok : \A j \in ok : d2(k) <= d2(j)}
    IN IF self.genome.is_decomposer \/ ok = {} THEN 0
       ELSE CHOOSE k \in best : \A j \in best : k <= j

\* self.move(dt, nests) at the end of a behaviour
Moved(W, me, dt, hd) ==
    [W EXCEPT !.cr[me] = move(@, StepOf(@, dt), TRUE, hd)]

\* standard_food_cycle, lines 802-811: carrying food home and delivering it;
\* fp is the point rand_point() draws for the respawned food
Deliver(W, me, fp) ==
    LET self == W.cr[me]
        my_nest == get_nest(self)
        e1 == clamp(self.energy + ENERGY_DELIVERY_REWARD, 0, self.energy_max)
    IN IF dist(self.x, self.y, my_nest.x, my_nest.y) <= DROP_DIST
       THEN [W EXCEPT
               !.cr[me] = [seek(@) EXCEPT
                   !.carrying = FALSE,
                   !.energy = e1,
                   !.ready_to_mate = (1000 * e1 >= self.energy_max * MATING_ENERGY_REQ)],
               !.score[my_nest.type] = @ + 1,
               !.foods = IF RESPAWN_FOOD_ON_DELIVER
                         THEN Append(@, Food(fp[1], fp[2], 0)) ELSE @]
       ELSE [W EXCEPT !.cr[me] = seek(@)]

\* standard_food_cycle, lines 815-820: the food targeted (index, 0 for None)
Target(W, me) ==
    LET self == W.cr[me]
    IN IF self.target_food = 0 \/ ~W.foods[self.target_food].alive
       THEN find_nearest_food(W, me)
       ELSE IF 100 * dist(self.x, self.y, W.foods[self.target_food].x,
                          W.foods[self.target_food].y)
                 > (self.genome.vision * 15) \div 10
       THEN 0
       ELSE self.target_food

\* the pickup that leaves the food in place: alive stays True
Pick_food_stays(W, me, t1) ==
    LET self == W.cr[me]
        has == t1 # 0 /\ W.foods[t1].alive
        d == dist(self.x, self.y, W.foods[t1].x, W.foods[t1].y)
        pick == has /\ d <= PICKUP_DIST
    IN [W EXCEPT
          !.cr[me] = [(IF has /\ 100 * d < self.genome.vision THEN seek(@) ELSE @)
                         EXCEPT !.carrying = IF pick THEN TRUE ELSE @,
                                !.target_food = IF pick THEN 0 ELSE t1,
                                !.digest_timer =
                                    IF self.genome.aggression <= 60 THEN 0 ELSE @]]

\* standard_food_cycle, lines 822-831: approaching and picking up the food t1
Pick(W, me, t1) ==
    LET self == W.cr[me]
        has == t1 # 0 /\ W.foods[t1].alive
        d == dist(self.x, self.y, W.foods[t1].x, W.foods[t1].y)
        pick == has /\ d <= PICKUP_DIST
    IN [W EXCEPT
          !.cr[me] = [(IF has /\ 100 * d < self.genome.vision THEN seek(@) ELSE @)
                         EXCEPT !.carrying = IF pick THEN TRUE ELSE @,
                                !.target_food = IF pick THEN 0 ELSE t1,
                                !.digest_timer =
                                    IF self.genome.aggression <= 60 THEN 0 ELSE @],
          !.foods = IF pick THEN [@ EXCEPT ![t1].alive = FALSE] ELSE @]

\* Creature.standard_food_cycle; hd is the heading of this update
standard_food_cycle(W, me, dt, hd, fp) ==
    IF W.cr[me].genome.is_decomposer THEN W
    ELSE Moved(IF W.cr[me].carrying THEN Deliver(W, me, fp)
               ELSE Pick(W, me, Target(W, me)),
               me, dt, hd)

\* Creature.neutral_behavior
neutral_behavior(W, me, dt, hd, fp) ==
    Moved(IF W.cr[me].genome.aggression > 60
          THEN [W EXCEPT !.cr[me] = wander(@)]
          ELSE standard_food_cycle(W, me, dt, hd, fp),
          me, dt, hd)

\* Creature.prey_behavior; grad tells whether sample_gradient returns a vector
prey_behavior(W, me, dt, hd, fp, grad) ==
    Moved(IF find_predator(W, me) # 0 \/ grad
          THEN [W EXCEPT !.cr[me].vmag = 100]
          ELSE standard_food_cycle(W, me, dt, hd, fp),
          me, dt, hd)

\* ---- creature.py: predators ----
\* Creature.find_prey: the nearest vulnerable creature in vision (the first of
\* the list among equals), 0 for None; tox tells whether sample_gradient finds
\* a toxin gradient at the candidates
find_prey(W, me, tox) ==
    LET self == W.cr[me]
        ok == {k \in DOMAIN W.creatures :
                 LET c == W.cr[W.creatures[k]]
                 IN /\ W.creatures[k] # me
                    /\ c.alive
                    /\ ~is_safe_zone(self, c)
                    /\ c.genome.size * PREDATION_SIZE_RATIO < 100 * self.genome.size
                    /\ ~tox
                    /\ 100 * dist(self.x, self.y, c.x, c.y) < self.genome.vision}
        d2(k) == Dist2(self.x, self.y, W.cr[W.creatures[k]].x, W.cr[W.creatures[k]].y)
        best == {k \in ok : \A j \in ok : d2(k) <= d2(j)}
    IN FirstOf(W.creatures, best)

\* the prey sits in a nest of its own that the hunter may not enter
Protected(self, prey) ==
    /\ ~can_enter(self, get_nest(prey))
    /\ contains(get_nest(prey), prey)

\* the pursuit that kills the prey it has found without the test of contact
Pursue_at_sight(W, me, prey) ==
    IF ~is_safe_zone(W.cr[me], W.cr[prey])
    THEN [W EXCEPT
            !.cr[prey].alive = FALSE,
            !.cr[me] = [seek(@) EXCEPT
                !.energy = clamp(@ + PREDATION_GAIN \div 4, 0, W.cr[me].energy_max),
                !.digest_timer = 100]]
    ELSE [W EXCEPT !.cr[me] = seek(@)]

\* predator_behavior, the pursuit: seek the prey and kill it on contact outside
\* a safe zone (a quarter of PREDATION_GAIN at once, the rest by digestion)
Pursue(W, me, prey) ==
    IF /\ 100 * dist(W.cr[me].x, W.cr[me].y, W.cr[prey].x, W.cr[prey].y)
             <= radius(W.cr[me]) + radius(W.cr[prey])
       /\ ~is_safe_zone(W.cr[me], W.cr[prey])
    THEN [W EXCEPT
            !.cr[prey].alive = FALSE,
            !.cr[me] = [seek(@) EXCEPT
                !.energy = clamp(@ + PREDATION_GAIN \div 4, 0, W.cr[me].energy_max),
                !.digest_timer = 100]]
    ELSE [W EXCEPT !.cr[me] = seek(@)]

\* lines 611-613: a single predator that is full enough becomes ready to mate
Readied(c) ==
    IF 1000 * c.energy >= c.energy_max * MATING_ENERGY_REQ /\ c.partner = 0
    THEN [c EXCEPT !.ready_to_mate = TRUE] ELSE c

\* lines 616-625: the fallback to plant food at half the reward
Graze(W, me, food) ==
    LET self == W.cr[me]
        d == dist(self.x, self.y, W.foods[food].x, W.foods[food].y)
    IN IF food # 0 /\ 100 * d < self.genome.vision
       THEN IF d <= PICKUP_DIST /\ W.foods[food].alive
            THEN [W EXCEPT
                    !.cr[me] = [seek(@) EXCEPT
                        !.energy = clamp(@ + ENERGY_DELIVERY_REWARD \div 2, 0,
                                         self.energy_max),
                        !.digest_timer = 15],
                    !.foods[food].alive = FALSE]
            ELSE [W EXCEPT !.cr[me] = seek(@)]
       ELSE W

\* predator_behavior before its final move; prey is what find_prey returned
Hunt(W, me, prey, grad) ==
    LET self == W.cr[me]
        protected == prey # 0 /\ Protected(self, W.cr[prey])
    IN IF 10 * self.energy <= 2 * self.energy_max
       THEN IF prey # 0 /\ ~protected
            THEN Pursue(W, me, prey)
            ELSE [W EXCEPT !.cr[me].vmag = (@ * 5) \div 100]
       ELSE IF prey = 0 /\ grad
       THEN [W EXCEPT !.cr[me].vmag = 100]
       ELSE IF prey # 0 /\ 100 * self.energy < 95 * self.energy_max
       THEN IF protected
            THEN [W EXCEPT !.cr[me] = wander(@)]
            ELSE [Pursue(W, me, prey) EXCEPT !.cr[me] = Readied(@)]
       ELSE IF 100 * self.energy < 50 * self.energy_max
       THEN Graze(W, me, find_nearest_food(W, me))
       ELSE [W EXCEPT !.cr[me] = wander(@)]

\* Creature.predator_behavior
predator_behavior(W, me, dt, hd, tox, grad) ==
    Moved(Hunt(W, me, find_prey(W, me, tox), grad), me, dt, hd)

\* ---- creature.py: decomposers ----
\* Creature.find_nearest_corpse: index of the nearest living corpse within
\* twice the vision, 0 for None
find_nearest_corpse(W, me) ==
    LET self == W.cr[me]
        ok == {k \in DOMAIN W.corpses :
                 /\ W.corpses[k].alive
                 /\ 100 * dist(self.x, self.y, W.corpses[k].x, W.corpses[k].y)
                        < 2 * self.genome.vision}
        d2(k) == Dist2(self.x, self.y, W.corpses[k].x, W.corpses[k].y)
        best == {k \in ok : \A j \in ok : d2(k) <= d2(j)}
    IN IF ok = {} THEN 0 ELSE CHOOSE k \in best : \A j \in best : k <= j

\* the plants spawned without the minimum of 30 percent: whatever remains
\* becomes a plant
RECURSIVE Plants_crumbs(_, _, _)
Plants_crumbs(remaining, x, y) ==
    IF remaining > 0
    THEN LET plant_energy == IF remaining >= PLANT_SPAWN_ENERGY
                             THEN PLANT_SPAWN_ENERGY ELSE remaining
         IN <<Food(x, y, plant_energy)>> \o Plants_crumbs(remaining - plant_energy, x, y)
    ELSE << >>

\* Creature.digest_and_poop: the plants spawned for consumed energy, each at
\* the lattice point of the decomposer
RECURSIVE Plants(_, _, _)
Plants(remaining, x, y) ==
    IF 10 * remaining >= 3 * PLANT_SPAWN_ENERGY
    THEN LET plant_energy == IF remaining >= PLANT_SPAWN_ENERGY
                             THEN PLANT_SPAWN_ENERGY ELSE remaining
         IN <<Food(x, y, plant_energy)>> \o Plants(remaining - plant_energy, x, y)
    ELSE << >>

digest_and_poop(W, me, consumed) ==
    [W EXCEPT !.foods = @ \o Plants(consumed, W.cr[me].x, W.cr[me].y)]

\* list.remove(x): the list without its first element equal to x
RemoveFirst(seq, x) ==
    LET hit == {k \in DOMAIN seq : seq[k] = x}
    IN IF hit = {} THEN seq
       ELSE LET k == CHOOSE a \in hit : \A b \in hit : a <= b
            IN SubSeq(seq, 1, k - 1) \o SubSeq(seq, k + 1, Len(seq))

\* the toxin part shared by decomposer_behavior and decomposer_escape:
\* release_toxin (an emit into the "toxin" layer) and the cooldown
ReleaseToxin(c) == [c EXCEPT !.toxin_cooldown = TOXIN_DURATION]

\* decomposer_behavior before its final move; target is the corpse found
Scavenge(W, me, target, grad) ==
    IF target = 0
    THEN [W EXCEPT !.cr[me] = IF grad THEN [@ EXCEPT !.vmag = 100] ELSE wander(@)]
    ELSE LET self == W.cr[me]
             corpse == W.corpses[target]
             d == dist(self.x, self.y, corpse.x, corpse.y)
             seen == 100 * d < self.genome.vision
             eat == seen /\ 100 * d <= radius(self) + corpse.radius
             eaten == consume(corpse, self.energy_max - self.energy)
             consumed == corpse.energy - eaten.energy
             e1 == clamp(self.energy + consumed, 0, self.energy_max)
         IN IF eat
            THEN [W EXCEPT
                    !.cr[me] = [seek(@) EXCEPT
                        !.energy = e1,
                        !.ready_to_mate =
                            IF 1000 * e1 >= self.energy_max * MATING_ENERGY_REQ
                            THEN TRUE ELSE @],
                    !.foods = @ \o Plants(consumed, self.x, self.y),
                    !.corpses = IF ~eaten.alive \/ eaten.energy <= 0
                                THEN RemoveFirst([@ EXCEPT ![target] = eaten], eaten)
                                ELSE [@ EXCEPT ![target] = eaten]]
            ELSE IF seen THEN [W EXCEPT !.cr[me] = seek(@)]
            ELSE W

\* lines 673-675: the toxin is released when the escape priority asks for it
Toxin(W, me, escape_p) ==
    IF escape_p > TOXIN_THRESHOLD /\ W.cr[me].toxin_cooldown <= 0
    THEN [W EXCEPT !.cr[me] = ReleaseToxin(@)] ELSE W

Scavenging(W, me, grad) == Scavenge(W, me, find_nearest_corpse(W, me), grad)

\* Creature.decomposer_behavior; escape_p is self.priorities["escape"]
decomposer_behavior(W, me, dt, hd, grad, escape_p) ==
    Moved(Scavenging(Toxin(W, me, escape_p), me, grad), me, dt, hd)

\* the escape that releases the toxin whatever the cooldown
decomposer_escape_eager(W, me, dt, hd) ==
    Moved(IF find_predator(W, me) # 0
          THEN [W EXCEPT !.cr[me] = [ReleaseToxin(@) EXCEPT !.vmag = 100]]
          ELSE W,
          me, dt, hd)

\* Creature.decomposer_escape
decomposer_escape(W, me, dt, hd) ==
    Moved(IF find_predator(W, me) # 0
          THEN [W EXCEPT !.cr[me] =
                   [(IF @.toxin_cooldown <= 0 THEN ReleaseToxin(@) ELSE @)
                       EXCEPT !.vmag = 100]]
          ELSE W,
          me, dt, hd)

\* ---- creature.py: calls and mating ----
\* Creature.respond_to_call, run by c for the caller
respond_to_call(W, c, caller) ==
    IF ~W.cr[c].ready_to_mate \/ ~W.cr[c].alive \/ W.cr[c].partner # 0 THEN W
    ELSE [W EXCEPT
            !.cr[c] = [seek(@) EXCEPT !.responding = TRUE,
                                      !.response_timer = RESPONSE_CALL_DURATION,
                                      !.partner = caller],
            !.cr[caller] = [seek(@) EXCEPT !.partner = c]]

\* Creature.broadcast_call, the loop over the population from position k on;
\* range is 450 or 350 (pixels per 100 of vision)
RECURSIVE Hear(_, _, _, _)
Hear(W, me, k, range) ==
    IF k > Len(W.creatures) THEN W
    ELSE LET c == W.creatures[k]
             o == W.cr[c]
             self == W.cr[me]
         IN IF c = me \/ ~o.alive \/ ~o.ready_to_mate
            THEN Hear(W, me, k + 1, range)
            ELSE IF get_nest(o) # get_nest(self)
            THEN Hear(W, me, k + 1, range)
            ELSE IF 10000 * dist(self.x, self.y, o.x, o.y) < range * self.genome.vision
            THEN Hear(respond_to_call([W EXCEPT !.cr[c].heard_call = me], c, me),
                      me, k + 1, range)
            ELSE Hear(W, me, k + 1, range)

\* Creature.broadcast_call
broadcast_call(W, me) ==
    LET self == W.cr[me]
        my_nest == get_nest(self)
        is_predator == self.genome.aggression > 60
        s1 == IF ~contains(my_nest, self) THEN seek(self) ELSE self
    IN IF ~self.ready_to_mate \/ ~self.alive THEN W
       ELSE IF self.partner # 0 THEN W
       ELSE IF ~can_enter(self, my_nest) THEN W
       ELSE IF s1.call_cooldown <= 0
       THEN Hear([W EXCEPT !.cr[me] =
                     [s1 EXCEPT !.calling = TRUE,
                                !.call_timer = CALL_DURATION,
                                !.call_cooldown = IF is_predator THEN 25 ELSE 35]],
                 me, 1, IF is_predator THEN 450 ELSE 350)
       ELSE [W EXCEPT !.cr[me] = s1]

\* Creature.try_mate, the partner search of a forager or predator: the nearest
\* ready creature without a partner (the first of the list among equals), 0
\* for None
Candidate(W, me) ==
    LET self == W.cr[me]
        is_predator == self.genome.aggression > 60
        d(k) == dist(self.x, self.y, W.cr[W.creatures[k]].x, W.cr[W.creatures[k]].y)
        ok == {k \in DOMAIN W.creatures :
                 LET c == W.cr[W.creatures[k]]
                 IN /\ W.creatures[k] # me
                    /\ c.alive
                    /\ c.ready_to_mate
                    /\ c.partner = 0
                    /\ d(k) < 9999
                    /\ IF is_predator
                       THEN get_nest(c) = get_nest(self)
                            /\ 1000 * d(k) < 12 * self.genome.vision
                       ELSE is_safe_zone(self, c)
                            /\ 1000 * d(k) < 8 * self.genome.vision}
        best == {k \in ok : \A j \in ok : d(k) <= d(j)}
    IN FirstOf(W.creatures, best)

\* the clamp of a mutated trait, by key
\* the clamp of a mutated trait without its last branch: a trait that is none
\* of the five named ones (toxin) is left as drawn
Mutated_toxin_unclamped(key, v) ==
    IF key = "vision" THEN clamp(v, 4000, 16000)
    ELSE IF key \in {"speed", "size"} THEN clamp(v, 50, 160)
    ELSE IF key = "metabolism" THEN clamp(v, 50, 150)
    ELSE IF key = "aggression" THEN clamp(v, 0, 100)
    ELSE v

\* lines 466-477: the clamp of a mutated trait
Mutated(key, v) ==
    IF key = "vision" THEN clamp(v, 4000, 16000)
    ELSE IF key \in {"speed", "size"} THEN clamp(v, 50, 160)
    ELSE IF key = "metabolism" THEN clamp(v, 50, 150)
    ELSE IF key = "aggression" THEN clamp(v, 0, 100)
    ELSE clamp(v, 40, 200)

GenomeKeys == {"size", "speed", "vision", "metabolism", "aggression", "toxin"}

\* the point drawn for the child: a lattice point within 30 pixels of the
\* parents' midpoint on both axes (the nearest lattice point when there is none)
ChildPoint(mx, my, low) ==
    LET near == {q \in Points : Abs(q[1] - mx) <= 30 /\ Abs(q[2] - my) <= 30}
        cand == IF near # {} THEN near
                ELSE {q \in Points : \A o \in Points :
                         Dist2(mx, my, q[1], q[2]) <= Dist2(mx, my, o[1], o[2])}
    IN CHOOSE q \in cand :
          \A o \in cand : IF low THEN q[1] + q[2] <= o[1] + o[2]
                                 ELSE q[1] + q[2] >= o[1] + o[2]

\* the flag of the child with the parents' flags joined by "or"
ChildIsDecomposer_either(self, other) ==
    self.genome.is_decomposer \/ other.genome.is_decomposer

\* lines 459-461 and 485: the genome of the child is built with the "and" of
\* the parents' flags, and the flag is then overwritten with the caller's
ChildIsDecomposer(self, other) ==
    LET child_genome == [is_decomposer |-> self.genome.is_decomposer
                                           /\ other.genome.is_decomposer]
    IN [child_genome EXCEPT !.is_decomposer = self.genome.is_decomposer].is_decomposer

\* Creature.try_mate from the mating cost on (lines 449-515); draw holds the
\* random draws: noise (gauss), low (the child's point), frac (energy
\* fraction, hundredths), cooldown.  The child's own decide_behavior only
\* computes its priorities (it has no partner), and its move of one frame is
\* made without nests.
Mate(W, me, partner, hd, draw) ==
    LET self == W.cr[me]
        other == W.cr[partner]
        is_predator == self.genome.aggression > 60
        cost == IF is_predator THEN (MATING_COST * 6) \div 10 ELSE (MATING_COST * 8) \div 10
        child_genome ==
            [key \in GenomeKeys \cup {"is_decomposer"} |->
                IF key = "is_decomposer" THEN ChildIsDecomposer(self, other)
                ELSE Mutated(key, (self.genome[key] + other.genome[key]) \div 2 + draw.noise)]
        cp == ChildPoint((self.x + other.x) \div 2, (self.y + other.y) \div 2, draw.low)
        c0 == Creature(cp[1], cp[2], child_genome, 0, draw.cooldown)
        c1 == [c0 EXCEPT !.energy = (c0.energy_max * draw.frac) \div 100]
        c2 == move(c1, FrameStepOf(c1), FALSE, hd)
        child == [c2 EXCEPT !.generation = Max2(self.generation, other.generation) + 1]
        Parent(c) == [c EXCEPT !.energy = (@ * (1000 - cost)) \div 1000,
                               !.partner = 0,
                               !.heard_call = 0,
                               !.responding = FALSE,
                               !.mate_drive = 0,
                               !.ready_to_mate = FALSE,
                               !.call_cooldown = 20]
    IN [W |-> [W EXCEPT !.cr = Append([@ EXCEPT ![me] = Parent(self),
                                                ![partner] = Parent(other)], child)],
        child |-> Len(W.cr) + 1]

\* Creature.try_mate: the world after it and the child returned (its id, 0 for
\* None).  The reset of lines 517-522 is not reached by a decomposer, which
\* returns at line 420 or mates, and does nothing for the others.
try_mate(W, me, hd, draw) ==
    LET self == W.cr[me]
        my_nest == get_nest(self)
        is_decomposer == self.genome.is_decomposer
        is_predator == self.genome.aggression > 60
        None == [W |-> W, child |-> 0]
        Step(c) == move(seek(c), FrameStepOf(seek(c)), FALSE, hd)
        GoOn == [W |-> [W EXCEPT !.cr[me] = Step(self)], child |-> 0]
    IN IF ~self.ready_to_mate \/ ~self.alive THEN None
       ELSE IF is_predator /\ ~(can_enter(self, my_nest) /\ contains(my_nest, self))
       THEN GoOn
       ELSE IF ~contains(my_nest, self) THEN GoOn
       ELSE IF is_decomposer /\ (self.partner = 0 \/ ~W.cr[self.partner].alive) THEN None
       ELSE IF is_decomposer /\ ~(get_nest(W.cr[self.partner]) = my_nest
                                   /\ contains(my_nest, W.cr[self.partner]))
       THEN None
       ELSE IF is_decomposer /\ ~W.cr[self.partner].ready_to_mate THEN None
       ELSE LET partner == IF is_decomposer THEN self.partner ELSE Candidate(W, me)
                best_d == IF is_decomposer \/ partner = 0 THEN 0
                          ELSE dist(self.x, self.y, W.cr[partner].x, W.cr[partner].y)
                max_dist == IF is_predator THEN radius(self) * 4 ELSE radius(self) * 3
            IN IF partner = 0 THEN None
               ELSE IF 100 * best_d > max_dist THEN GoOn
               ELSE Mate(W, me, partner, hd, draw)

\* ---- creature.py: Creature.update ----
\* the timers with the mate drive accumulated without its clamp
Timers_drive_unclamped(c, dt) ==
    LET call_timer == IF c.call_timer > 0 THEN c.call_timer - dt ELSE c.call_timer
        response_timer == IF c.response_timer > 0 THEN c.response_timer - dt
                          ELSE c.response_timer
    IN [c EXCEPT
          !.mate_drive = @ + MATE_DRIVE_RATE * dt,
          !.call_timer = call_timer,
          !.calling = IF c.call_timer > 0 /\ call_timer <= 0 THEN FALSE ELSE @,
          !.call_cooldown = IF @ > 0 THEN @ - dt ELSE @,
          !.response_timer = response_timer,
          !.responding = IF c.response_timer > 0 /\ response_timer <= 0 THEN FALSE ELSE @,
          !.toxin_cooldown = IF @ > 0 THEN @ - dt ELSE @]

\* lines 107-130: the mate drive and the call, response and toxin timers
Timers(c, dt) ==
    LET call_timer == IF c.call_timer > 0 THEN c.call_timer - dt ELSE c.call_timer
        response_timer == IF c.response_timer > 0 THEN c.response_timer - dt
                          ELSE c.response_timer
    IN [c EXCEPT
          !.mate_drive = clamp(@ + MATE_DRIVE_RATE * dt, 0, 1000),
          !.call_timer = call_timer,
          !.calling = IF c.call_timer > 0 /\ call_timer <= 0 THEN FALSE ELSE @,
          !.call_cooldown = IF @ > 0 THEN @ - dt ELSE @,
          !.response_timer = response_timer,
          !.responding = IF c.response_timer > 0 /\ response_timer <= 0 THEN FALSE ELSE @,
          !.toxin_cooldown = IF @ > 0 THEN @ - dt ELSE @]

\* lines 148-194, the mate branch, in its steps.  in holds the inputs of the
\* update.
\* lines 150-170: a dead partner is dropped; a pairing older than 8 s is given
\* up.  drive is the mate drive just before.
GiveUp(W, me, dt) ==
    LET a == W.cr[me]
        dead == a.partner # 0 /\ ~W.cr[a.partner].alive
        paired == a.partner # 0 /\ ~dead
        t1 == IF paired THEN a.mate_attempt_timer + dt ELSE 0
        timeout == paired /\ t1 > 80
    IN [W |-> IF timeout
              THEN [W EXCEPT
                      !.cr[me] = [@ EXCEPT !.heard_call = 0,
                                           !.mate_attempt_timer = 0,
                                           !.mate_drive = @ \div 2],
                      !.cr[a.partner] = [@ EXCEPT !.partner = 0,
                                                  !.heard_call = 0,
                                                  !.mate_attempt_timer = 0]]
              ELSE [W EXCEPT
                      !.cr[me] = [@ EXCEPT !.partner = IF dead THEN 0 ELSE @,
                                           !.heard_call = IF dead THEN 0 ELSE @,
                                           !.mate_attempt_timer = t1]],
        timeout |-> timeout,
        drive |-> a.mate_drive]

\* lines 173-174
Call(W, me) ==
    IF ~W.cr[me].calling /\ W.cr[me].call_cooldown <= 0
    THEN broadcast_call(W, me) ELSE W

\* lines 176-187: a paired creature heads home, one that heard a call heads
\* for the caller
HeadHome(c) ==
    LET c1 == IF c.partner = 0 THEN c
              ELSE IF can_enter(c, get_nest(c))
              THEN (IF ~contains(get_nest(c), c) THEN seek(c) ELSE c)
              ELSE [c EXCEPT !.partner = 0]
    IN IF c1.heard_call # 0 THEN seek(c1) ELSE c1

\* lines 191-194: the child try_mate returned joins the population
Born(g, W4, tm, me) ==
    [W |-> IF tm.child # 0
           THEN [tm.W EXCEPT !.creatures = Append(@, tm.child),
                             !.cr[me].mate_attempt_timer = 0]
           ELSE tm.W,
     timeout |-> g.timeout, drive |-> g.drive,
     before |-> W4.cr, after |-> tm.W.cr, child |-> tm.child]

Mated(g, W4, me, in) == Born(g, W4, try_mate(W4, me, in.hd, in.draw), me)

Courtship(g, me, dt, in) ==
    Mated(g,
          neutral_behavior([Call(g.W, me) EXCEPT !.cr[me] = HeadHome(@)],
                           me, dt, in.hd, in.fp),
          me, in)

\* the result tells whether the timeout fired, the mate drive just before it,
\* the heap handed to try_mate, the heap it left and the child it returned
MateBranch(W, me, dt, in) == Courtship(GiveUp(W, me, dt), me, dt, in)

\* lines 198-204: the energy drain
Drain(c, dt) ==
    LET full == ((ENERGY_IDLE_COST * 100 + ENERGY_MOVE_COST * clamp(c.vmag, 0, 100))
                    * c.genome.metabolism * dt) \div 100000
    IN IF c.genome.is_decomposer THEN full \div 2 ELSE full

\* digestion without its clamp
Digest_unclamped(c, dt) ==
    IF c.digest_timer > 0
    THEN [c EXCEPT
            !.energy = IF c.genome.aggression > 60
                       THEN @ + (c.energy_max * 15 * dt) \div 1000
                       ELSE @,
            !.digest_timer = @ - dt]
    ELSE c

\* lines 206-211: passive digestion
Digest(c, dt) ==
    IF c.digest_timer > 0
    THEN [c EXCEPT
            !.energy = IF c.genome.aggression > 60
                       THEN clamp(@ + (c.energy_max * 15 * dt) \div 1000, 0, c.energy_max)
                       ELSE @,
            !.digest_timer = @ - dt]
    ELSE c

\* hibernation that leaves the metabolism of a predator alone
Hibernate_steady(c) ==
    IF c.genome.is_decomposer
    THEN IF 100 * c.energy <= 15 * c.energy_max
         THEN [c EXCEPT !.vmag = (@ * 20) \div 100,
                        !.ready_to_mate = FALSE,
                        !.alive = IF c.energy <= 0 THEN FALSE ELSE @]
         ELSE c
    ELSE IF c.genome.aggression > 60
    THEN IF 100 * c.energy <= 20 * c.energy_max
         THEN [c EXCEPT !.vmag = (@ * 15) \div 100,
                        !.ready_to_mate = FALSE,
                        !.alive = IF c.energy <= 0 THEN FALSE ELSE @]
         ELSE c
    ELSE IF c.energy <= 0 THEN [c EXCEPT !.alive = FALSE] ELSE c

\* hibernation in which only decomposers and predators can die
Hibernate_forager_immortal(c) ==
    IF c.genome.is_decomposer
    THEN IF 100 * c.energy <= 15 * c.energy_max
         THEN [c EXCEPT !.vmag = (@ * 20) \div 100,
                        !.ready_to_mate = FALSE,
                        !.alive = IF c.energy <= 0 THEN FALSE ELSE @]
         ELSE c
    ELSE IF c.genome.aggression > 60
    THEN IF 100 * c.energy <= 20 * c.energy_max
         THEN [c EXCEPT !.vmag = (@ * 15) \div 100,
                        !.ready_to_mate = FALSE,
                        !.genome.metabolism = (@ * 7) \div 10,
                        !.alive = IF c.energy <= 0 THEN FALSE ELSE @]
         ELSE c
    ELSE c

\* lines 213-239: hibernation and death
Hibernate(c) ==
    IF c.genome.is_decomposer
    THEN IF 100 * c.energy <= 15 * c.energy_max
         THEN [c EXCEPT !.vmag = (@ * 20) \div 100,
                        !.ready_to_mate = FALSE,
                        !.alive = IF c.energy <= 0 THEN FALSE ELSE @]
         ELSE c
    ELSE IF c.genome.aggression > 60
    THEN IF 100 * c.energy <= 20 * c.energy_max
         THEN [c EXCEPT !.vmag = (@ * 15) \div 100,
                        !.ready_to_mate = FALSE,
                        !.genome.metabolism = (@ * 7) \div 10,
                        !.alive = IF c.energy <= 0 THEN FALSE ELSE @]
         ELSE c
    ELSE IF c.energy <= 0 THEN [c EXCEPT !.alive = FALSE] ELSE c

NoMate == [timeout |-> FALSE, drive |-> 0, before |-> << >>, after |-> << >>, child |-> 0]

\* lines 198-239 for the creature c the behaviour left: drain, digestion,
\* hibernation and death
Metabolise(c, drained, dt) ==
    [Hibernate(Digest([c EXCEPT !.energy = drained], dt))
        EXCEPT !.starved = @ \/ drained <= 0]

Settled(W, me, dt, behavior, mate, drained) ==
    [W |-> [W EXCEPT !.cr[me] = Metabolise(@, drained, dt)],
     ran |-> TRUE, behavior |-> behavior, mate |-> mate, drained |-> drained]

Settle(W, me, dt, behavior, mate) ==
    Settled(W, me, dt, behavior, mate, W.cr[me].energy - Drain(W.cr[me], dt))

SettleMate(mb, me, dt) ==
    Settle(mb.W, me, dt, "mate",
           [timeout |-> mb.timeout, drive |-> mb.drive, before |-> mb.before,
            after |-> mb.after, child |-> mb.child])

\* lines 135-147: the behaviours other than mate
Behave(db, me, dt, in) ==
    IF db.behavior = "escape"
    THEN IF db.W.cr[me].genome.is_decomposer
         THEN decomposer_escape(db.W, me, dt, in.hd)
         ELSE prey_behavior(db.W, me, dt, in.hd, in.fp, in.grad)
    ELSE IF db.W.cr[me].genome.is_decomposer
         THEN decomposer_behavior(db.W, me, dt, in.hd, in.grad, db.escape)
         ELSE IF db.W.cr[me].genome.aggression > 60
         THEN predator_behavior(db.W, me, dt, in.hd, in.tox, in.grad)
         ELSE standard_food_cycle(db.W, me, dt, in.hd, in.fp)

Decided(db, me, dt, in) ==
    IF db.behavior = "mate"
    THEN SettleMate(MateBranch(db.W, me, dt, in), me, dt)
    ELSE Settle(Behave(db, me, dt, in), me, dt, db.behavior, NoMate)

\* the update without the test of lines 104-105: a dead creature is updated
\* like a live one
Creature_update_undead(W, me, dt, in) ==
    Decided(decide_behavior([W EXCEPT !.cr[me] = Timers(@, dt)], me, in.noise),
            me, dt, in)

\* Creature.update for the creature me: the world after it and what happened
\* in it (ran: the creature was alive; behavior; the mate branch's report;
\* drained: the energy right after the drain)
Creature_update(W, me, dt, in) ==
    IF ~W.cr[me].alive
    THEN [W |-> W, ran |-> FALSE, behavior |-> "none", mate |-> NoMate, drained |-> 0]
    ELSE Decided(decide_behavior([W EXCEPT !.cr[me] = Timers(@, dt)], me, in.noise),
                 me, dt, in)

(***************************************************************************)
(* Spec: the main loop of main.py over a small world                       *)
(***************************************************************************)
\* number of ticks explored
MaxTicks == 2

\* the frame times explored, in tenths of a second
Dts == {30, 50}

\* the random inputs of one update: the gather noise, the heading, the point
\* of a respawned food, what the scent field returns, the draws of a birth
Noises == {-50, 50}
FoodPoints == {<<260, 300>>, <<500, 300>>}
Draws ==
    { [noise |-> -7, low |-> TRUE, frac |-> 70, cooldown |-> 0],
      [noise |-> 7, low |-> FALSE, frac |-> 90, cooldown |-> CALL_COOLDOWN] }
\* per heading, one update in a field without scent and one with scent around
Inputs ==
    { i \in [noise : Noises, hd : Headings, fp : FoodPoints, grad : BOOLEAN,
             tox : BOOLEAN, draw : Draws] :
        \/ /\ i.noise < 0 /\ ~i.grad /\ ~i.tox /\ i.draw.low
           /\ i.fp[1] < WIDTH \div 2
        \/ /\ i.noise > 0 /\ i.grad /\ i.tox /\ ~i.draw.low
           /\ i.fp[1] >= WIDTH \div 2 }

\* genomes within the ranges of Creature.__init__ and main
ForagerGenome ==
    [size |-> 100, speed |-> 100, vision |-> 10000, metabolism |-> 100,
     aggression |-> 30, toxin |-> 0, is_decomposer |-> FALSE]
PredatorGenome ==
    [size |-> 150, speed |-> 100, vision |-> 12000, metabolism |-> 140,
     aggression |-> 80, toxin |-> 0, is_decomposer |-> FALSE]
DecomposerGenome ==
    [size |-> 100, speed |-> 50, vision |-> 10000, metabolism |-> 100,
     aggression |-> 0, toxin |-> 50, is_decomposer |-> TRUE]

\* main lines 124-130: the corpse of a dead creature
Corpse(dead) ==
    [x |-> dead.x, y |-> dead.y,
     energy |-> (dead.energy_max * CORPSE_ENERGY_MULTIPLIER) \div 100,
     max_energy |-> (dead.energy_max * CORPSE_ENERGY_MULTIPLIER) \div 100,
     radius |-> (radius(dead) * 8) \div 10,
     alive |-> TRUE]

\* a creature at p with the given energy (percent of energy_max)
At(genome, p, pct, call_cooldown) ==
    Creature(p[1], p[2], genome, (ENERGY_BASE_MAX * genome.size * pct) \div 100,
             call_cooldown)

\* a creature in the middle of its nest, full, ready to mate and driven to
Suitor(genome, call_cooldown) ==
    LET c == At(genome, <<get_nest([genome |-> genome]).x, get_nest([genome |-> genome]).y>>,
                100, call_cooldown)
    IN [c EXCEPT !.ready_to_mate = TRUE, !.mate_drive = 900]

World(crs, fs, cs) ==
    [cr |-> crs, creatures |-> [k \in DOMAIN crs |-> k], foods |-> fs, corpses |-> cs,
     score |-> [t \in NestTypes |-> 0]]

\* the worlds the ticks start from
Scenarios ==
    \* two or three ready creatures of one species in their nest
    { World(<<Suitor(g, cd[1]), Suitor(g, cd[2])>>, << >>, << >>) :
        g \in {ForagerGenome, PredatorGenome, DecomposerGenome},
        cd \in {0, CALL_COOLDOWN} \X {0, CALL_COOLDOWN} }
    \cup
    { World(<<Suitor(ForagerGenome, 0), Suitor(ForagerGenome, CALL_COOLDOWN),
              Suitor(ForagerGenome, CALL_COOLDOWN)>>, << >>, << >>) }
    \cup
    \* a predator on its prey in the open
    { World(<<[At(PredatorGenome, <<500, 300>>, pct[1], 0) EXCEPT !.energy = @ + pct[3]],
              At(ForagerGenome, <<500, 300>>, pct[2], 0)>>, << >>, << >>) :
        pct \in {<<0, 60, 50>>, <<60, 60, 0>>, <<60, 4, 0>>} }
    \cup
    \* a starving creature alone
    { World(<<[At(g, <<500, 300>>, 0, 0) EXCEPT !.energy = e]>>, << >>, << >>) :
        g \in {ForagerGenome, PredatorGenome, DecomposerGenome}, e \in {225, 450} }
    \cup
    \* foragers with food: one carrying home the food it picked up (which
    \* stays in the list, alive = False), one standing on a food
    { World(<<[At(ForagerGenome, <<220, 300>>, 50, 0) EXCEPT !.carrying = TRUE],
              At(ForagerGenome, <<260, 300>>, 50, 0)>>,
            <<Food(260, 300, 0), [Food(220, 300, 0) EXCEPT !.alive = FALSE]>>, << >>) }
    \cup
    \* a predator below half of its energy, alone, standing on a food
    { World(<<At(PredatorGenome, <<500, 300>>, 40, 0)>>, <<Food(500, 300, 0)>>, << >>) }
    \cup
    \* a decomposer on a corpse
    { World(<<At(DecomposerGenome, <<500, 240>>, 50, 0)>>, << >>,
            <<Corpse(At(g, <<500, 240>>, 100, 0))>>) :
        g \in {ForagerGenome, PredatorGenome} }

NoUpdate ==
    [id |-> 0, tick |-> 0, ran |-> FALSE, behavior |-> "none", mate |-> NoMate,
     drained |-> 0, pre |-> << >>]

Init ==
    /\ maps = ScentInit
    /\ hist = [n |-> 0, last |-> NoCall]
    /\ \E w \in Scenarios :
          /\ cr = w.cr
          /\ creatures = w.creatures
          /\ foods = w.foods
          /\ corpses = w.corpses
          /\ score = w.score
    /\ phase = "idle"
    /\ idx = 0
    /\ tick = 0
    /\ cur_dt = 0
    /\ newly_dead = << >>
    /\ last = NoUpdate

\* main line 67 and 110: a tick begins with its dt and an empty newly_dead
BeginTick ==
    /\ phase = "idle"
    /\ tick < MaxTicks
    /\ \E d \in Dts : cur_dt' = d
    /\ phase' = "pass"
    /\ idx' = 1
    /\ tick' = tick + 1
    /\ newly_dead' = << >>
    /\ UNCHANGED <<maps, hist, cr, creatures, foods, corpses, score, last>>

\* main lines 112-119: one iteration of the for loop over creatures,
\* Creature.update included
UpdateStep ==
    /\ phase = "pass"
    /\ idx <= Len(creatures)
    /\ \E in \in Inputs :
       \E r \in {Creature_update([cr |-> cr, creatures |-> creatures, foods |-> foods,
                                  corpses |-> corpses, score |-> score],
                                 creatures[idx], cur_dt, in)} :
          LET me == creatures[idx]
              stamped == [i \in DOMAIN r.W.cr |->
                            IF i > Len(cr) THEN [r.W.cr[i] EXCEPT !.born = tick]
                            ELSE IF i = me /\ r.ran /\ cr[me].born = tick
                            THEN [r.W.cr[i] EXCEPT !.updates = @ + 1]
                            ELSE r.W.cr[i]]
          IN /\ cr' = stamped
             /\ creatures' = r.W.creatures
             /\ foods' = r.W.foods
             /\ corpses' = r.W.corpses
             /\ score' = r.W.score
             /\ newly_dead' = IF cr[me].alive /\ ~r.W.cr[me].alive
                              THEN Append(newly_dead, me) ELSE newly_dead
             /\ last' = [id |-> me, tick |-> tick, ran |-> r.ran, behavior |-> r.behavior,
                         mate |-> r.mate, drained |-> r.drained, pre |-> cr]
    /\ idx' = idx + 1
    /\ UNCHANGED <<maps, hist, phase, tick, cur_dt>>

IsLive(i) == cr[i].alive
HasEnergy(c) == c.alive /\ c.energy > 0

\* main lines 121-161: the corpses of the newly dead, then the pruning of the
\* corpses and of the population
EndTick ==
    /\ phase = "pass"
    /\ idx > Len(creatures)
    /\ corpses' = SelectSeq(corpses \o [k \in DOMAIN newly_dead |-> Corpse(cr[newly_dead[k]])],
                            HasEnergy)
    /\ creatures' = SelectSeq(creatures, IsLive)
    /\ phase' = "idle"
    /\ UNCHANGED <<maps, hist, cr, foods, score, idx, tick, cur_dt, newly_dead, last>>

Next == BeginTick \/ UpdateStep \/ EndTick

Spec == Init /\ [][Next]_vars

(***************************************************************************)
(* SpecCalls: single calls of Creature methods (try_mate) on small worlds  *)
(* that a run of the simulation can have reached                           *)
(***************************************************************************)
\* number of calls explored from each world
MaxCalls == 1

\* the draws of one mating: those of the ticks, and two whose gaussian noise
\* is larger than the whole range of every trait
CallDraws ==
    Draws \cup { [noise |-> -30000, low |-> TRUE, frac |-> 70, cooldown |-> 0],
                 [noise |-> 30000, low |-> FALSE, frac |-> 90, cooldown |-> CALL_COOLDOWN] }

\* a predator whose metabolism repeated hibernation (update, line 233) has
\* worn down below the range of the genome
WornPredatorGenome == [PredatorGenome EXCEPT !.metabolism = 33]

MateGenomes == {ForagerGenome, PredatorGenome, WornPredatorGenome, DecomposerGenome}

\* lattice points in and around the three nests: the centre of the prey nest
\* and a point inside it; a point inside and a point outside the predator
\* nest, 60 pixels apart; the centre of the decomposer nest and a point
\* inside it, 60 pixels away
MatePoints ==
    { <<200, 300>>, <<260, 300>>, <<740, 300>>, <<680, 300>>, <<500, 120>>, <<500, 180>> }

\* the creature stands in no nest whose wall keeps it out
Allowed(c) == \A k \in DOMAIN nests : contains(nests[k], c) => can_enter(c, nests[k])

\* a full, driven creature at p; st tells whether it is ready and alive
Mature(genome, p, st, partner, calling) ==
    [At(genome, p, 100, CALL_COOLDOWN) EXCEPT
        !.ready_to_mate = st.ready,
        !.alive = st.alive,
        !.mate_drive = 900,
        !.partner = partner,
        !.heard_call = IF calling THEN 0 ELSE partner,
        !.calling = calling,
        !.call_timer = IF calling THEN CALL_DURATION ELSE 0,
        !.responding = (partner # 0 /\ ~calling),
        !.response_timer = IF partner # 0 /\ ~calling THEN RESPONSE_CALL_DURATION ELSE 0]

\* the second creature: ready, not ready, or ready and dead in this pass
MateStates ==
    { [ready |-> TRUE, alive |-> TRUE], [ready |-> FALSE, alive |-> TRUE],
      [ready |-> TRUE, alive |-> FALSE] }

\* two creatures, unpaired or paired with each other by a call of the first
MateWorlds ==
    { w \in { World(<<Mature(g[1], p[1], [ready |-> TRUE, alive |-> TRUE],
                             IF paired THEN 2 ELSE 0, calling),
                      Mature(g[2], p[2], st, IF paired THEN 1 ELSE 0, FALSE)>>,
                    << >>, << >>) :
                g \in MateGenomes \X MateGenomes, p \in MatePoints \X MatePoints,
                st \in MateStates, paired \in BOOLEAN, calling \in BOOLEAN } :
        Allowed(w.cr[1]) /\ Allowed(w.cr[2]) }

\* the energy of the deciding creature (percent of energy_max, on both sides
\* of the 35 percent of line 256 and of the 90 percent of line 251) and its
\* mate drive
DecidePcts == {20, 34, 35, 95}
DecideDrives == {0, 1000}

\* where the two predators stand: on the deciding creature, 60 pixels from it
\* and out of its sight
ThreatPoints == { <<500, 300>>, <<500, 240>>, <<680, 300>> }

\* a creature in the open at (500, 300), alone or paired with a second one of
\* its kind, and two predators, alive or killed in this pass
DecideWorlds ==
    { World(<<[At(g, <<500, 300>>, pct, CALL_COOLDOWN) EXCEPT
                  !.mate_drive = drive,
                  !.ready_to_mate = paired,
                  !.partner = IF paired THEN 2 ELSE 0,
                  !.heard_call = IF paired THEN 2 ELSE 0],
              Mature(g, <<500, 300>>, [ready |-> TRUE, alive |-> TRUE],
                     IF paired THEN 1 ELSE 0, paired),
              [At(PredatorGenome, p[1], 100, CALL_COOLDOWN) EXCEPT !.alive = a[1]],
              [At(PredatorGenome, p[2], 100, CALL_COOLDOWN) EXCEPT !.alive = a[2]]>>,
            << >>, << >>) :
        g \in {ForagerGenome, PredatorGenome, DecomposerGenome},
        pct \in DecidePcts, drive \in DecideDrives, paired \in BOOLEAN,
        p \in ThreatPoints \X ThreatPoints, a \in BOOLEAN \X BOOLEAN }

\* a creature about to call, anywhere its walls let it stand, ready or not,
\* off or on cooldown, already calling or not, alone or paired with the second
\* creature; two ready creatures of its kind wait in the middle of their nest
CallWorlds ==
    { w \in { World(<<[Mature(g, p, [ready |-> ready, alive |-> TRUE],
                              IF paired THEN 2 ELSE 0, calling)
                          EXCEPT !.call_cooldown = cd],
                      Mature(g, <<get_nest([genome |-> g]).x, get_nest([genome |-> g]).y>>,
                             [ready |-> TRUE, alive |-> TRUE], IF paired THEN 1 ELSE 0, FALSE),
                      Suitor(g, CALL_COOLDOWN)>>,
                    << >>, << >>) :
                g \in {ForagerGenome, PredatorGenome, DecomposerGenome},
                p \in MatePoints, ready \in BOOLEAN, paired \in BOOLEAN,
                calling \in BOOLEAN, cd \in {0, CALL_COOLDOWN} } :
        Allowed(w.cr[1]) }

InitCalls ==
    /\ maps = ScentInit
    /\ hist = [n |-> 0, last |-> NoCall]
    /\ \E w \in MateWorlds \cup DecideWorlds \cup CallWorlds :
          /\ cr = w.cr
          /\ creatures = w.creatures
          /\ foods = w.foods
          /\ corpses = w.corpses
          /\ score = w.score
    /\ phase = "call"
    /\ idx = 0
    /\ tick = 0
    /\ cur_dt = 0
    /\ newly_dead = << >>
    /\ last = NoUpdate

\* one call of try_mate by a creature of the population; the child it returns
\* is constructed (it is on the heap) and is not appended by try_mate itself
TryMate ==
    /\ phase = "call"
    /\ tick < MaxCalls
    /\ \E k \in DOMAIN creatures, draw \in CallDraws, hd \in {"E", "N"} :
       \E r \in {try_mate([cr |-> cr, creatures |-> creatures, foods |-> foods,
                           corpses |-> corpses, score |-> score],
                          creatures[k], hd, draw)} :
          /\ cr' = r.W.cr
          /\ last' = [id |-> creatures[k], tick |-> tick + 1, ran |-> TRUE,
                      behavior |-> "try_mate",
                      mate |-> [timeout |-> FALSE, drive |-> 0, before |-> cr,
                                after |-> r.W.cr, child |-> r.child],
                      drained |-> 0, pre |-> cr]
    /\ tick' = tick + 1
    /\ UNCHANGED <<maps, hist, creatures, foods, corpses, score, phase, idx, cur_dt,
                   newly_dead>>

\* one call of decide_behavior by a living creature of the population, as
\* update makes it (line 133); score is what get_escape_priority returned to it
Decide ==
    /\ phase = "call"
    /\ tick < MaxCalls
    /\ \E k \in DOMAIN creatures, noise \in Noises :
       \E r \in {decide_behavior([cr |-> cr, creatures |-> creatures, foods |-> foods,
                                  corpses |-> corpses, score |-> score],
                                 creatures[k], noise)} :
          /\ cr[creatures[k]].alive
          /\ cr' = r.W.cr
          /\ last' = [id |-> creatures[k], tick |-> tick + 1, ran |-> TRUE,
                      behavior |-> r.behavior, mate |-> NoMate, drained |-> 0,
                      pre |-> cr, escape |-> r.escape,
                      score |-> get_escape_priority(
                                   [cr |-> cr, creatures |-> creatures, foods |-> foods,
                                    corpses |-> corpses, score |-> score], creatures[k])]
    /\ tick' = tick + 1
    /\ UNCHANGED <<maps, hist, creatures, foods, corpses, score, phase, idx, cur_dt,
                   newly_dead>>

\* lines 172-174 of update for a living creature: broadcast_call is called
\* when the creature is not calling and its cooldown has run out
Broadcast ==
    /\ phase = "call"
    /\ tick < MaxCalls
    /\ \E k \in DOMAIN creatures :
          /\ cr[creatures[k]].alive
          /\ cr' = Call([cr |-> cr, creatures |-> creatures, foods |-> foods,
                         corpses |-> corpses, score |-> score], creatures[k]).cr
          /\ last' = [id |-> creatures[k], tick |-> tick + 1, ran |-> TRUE,
                      behavior |-> "broadcast_call", mate |-> NoMate, drained |-> 0,
                      pre |-> cr]
    /\ tick' = tick + 1
    /\ UNCHANGED <<maps, hist, creatures, foods, corpses, score, phase, idx, cur_dt,
                   newly_dead>>

NextCalls == TryMate \/ Decide \/ Broadcast

SpecCalls == InitCalls /\ [][NextCalls]_vars

(***************************************************************************)
(* SpecLife: the main loop over worlds of paired, hunted, threatened and   *)
(* hungry creatures, with frames shorter and longer than the timers        *)
(***************************************************************************)
\* the frame times explored, in tenths of a second: one shorter than
\* TOXIN_DURATION, one longer than the 8 s of line 160
LifeDts == {30, 90}

\* a ready creature at p paired with partner; heard is the caller it answered
\* (0 for the caller of the pair)
Paired(genome, p, pct, partner, heard) ==
    [At(genome, p, pct, CALL_COOLDOWN) EXCEPT
        !.ready_to_mate = TRUE,
        !.partner = partner,
        !.heard_call = heard]

\* the worlds the ticks start from
LifeScenarios ==
    \* a pair of foragers in the open, and a predator on them or in their sight
    { World(<<At(PredatorGenome, h[1], h[2], CALL_COOLDOWN),
              Paired(ForagerGenome, <<500, 300>>, 60, 3, 0),
              Paired(ForagerGenome, <<500, 300>>, 60, 2, 2)>>, << >>, << >>) :
        h \in { <<<<500, 300>>, 15>>, <<<<500, 240>>, 60>> } }
    \cup
    \* a pair of hungry foragers in their nest
    { World(<<Paired(ForagerGenome, <<260, 300>>, 40, 2, 0),
              Paired(ForagerGenome, <<260, 300>>, 40, 1, 1)>>, << >>, << >>) }
    \cup
    \* a decomposer and a sated predator on it, in both orders of the list
    { World(<<At(DecomposerGenome, <<500, 300>>, 50, CALL_COOLDOWN),
              At(PredatorGenome, <<500, 300>>, 100, CALL_COOLDOWN)>>, << >>, << >>),
      World(<<At(PredatorGenome, <<500, 300>>, 100, CALL_COOLDOWN),
              At(DecomposerGenome, <<500, 300>>, 50, CALL_COOLDOWN)>>, << >>, << >>) }
    \cup
    \* two predators in their nest: a hungry one that is still ready to mate,
    \* and a full one driven to mate whose call is on cooldown
    { World(<<[At(PredatorGenome, <<740, 300>>, 26, CALL_COOLDOWN)
                  EXCEPT !.ready_to_mate = TRUE],
              Suitor(PredatorGenome, CALL_COOLDOWN)>>, << >>, << >>) }

InitLife ==
    /\ maps = ScentInit
    /\ hist = [n |-> 0, last |-> NoCall]
    /\ \E w \in LifeScenarios :
          /\ cr = w.cr
          /\ creatures = w.creatures
          /\ foods = w.foods
          /\ corpses = w.corpses
          /\ score = w.score
    /\ phase = "idle"
    /\ idx = 0
    /\ tick = 0
    /\ cur_dt = 0
    /\ newly_dead = << >>
    /\ last = NoUpdate

\* main line 67 and 110: a tick begins with its dt and an empty newly_dead
BeginLifeTick ==
    /\ phase = "idle"
    /\ tick < MaxTicks
    /\ \E d \in LifeDts : cur_dt' = d
    /\ phase' = "pass"
    /\ idx' = 1
    /\ tick' = tick + 1
    /\ newly_dead' = << >>
    /\ UNCHANGED <<maps, hist, cr, creatures, foods, corpses, score, last>>

\* the traits of a complete genome
Traits == GenomeKeys \cup {"is_decomposer"}

\* the genomes handed to the constructor: complete, or lacking one trait
ConstructGenomes ==
    { [key \in Traits \ lacking |-> g[key]] :
        g \in {ForagerGenome, PredatorGenome, DecomposerGenome},
        lacking \in {{}} \cup {{key} : key \in Traits} }

\* Creature.__init__, lines 38-66: the traits it reads with genome[...] (size
\* for the radius and energy_max; speed and aggression unless
\* genome.get("is_decomposer", False) holds); a KeyError is raised when one of
\* them is absent, and no other trait is looked at
Subscripted(genome) ==
    LET is_decomposer == "is_decomposer" \in DOMAIN genome /\ genome["is_decomposer"]
    IN {"size"} \cup (IF is_decomposer THEN {} ELSE {"speed", "aggression"})

KeyError(genome) == ~(Subscripted(genome) \subseteq DOMAIN genome)

\* main lines 33-55: Creature(x, y, genome), the call of the constructor with a
\* non-empty genome before the loop starts
Construct ==
    /\ phase = "idle"
    /\ tick = 0
    /\ last = NoUpdate
    /\ \E g \in ConstructGenomes :
          last' = [id |-> 0, tick |-> 0, ran |-> TRUE, behavior |-> "__init__",
                   mate |-> NoMate, drained |-> 0, pre |-> cr,
                   genome |-> g, raised |-> KeyError(g)]
    /\ UNCHANGED <<maps, hist, cr, creatures, foods, corpses, score, phase, idx, tick,
                   cur_dt, newly_dead>>

NextLife == Construct \/ BeginLifeTick \/ UpdateStep \/ EndTick

SpecLife == InitLife /\ [][NextLife]_vars

(***************************************************************************)
(* SpecCorpse: consume calls on a corpse, and the gather routines of the   *)
(* three species around it                                                 *)
(***************************************************************************)
\* number of calls explored from each world
MaxConsumes == 2

\* the amounts asked of a corpse, in hundredths of energy: nothing, a part,
\* all of a forager's corpse, more than any corpse holds
ConsumeAmounts == {0, 1200, 5000, 9000}

\* a decomposer, a forager and a predator, hungry or full, on the corpse of a
\* forager or of a predator
CorpseWorlds ==
    { World(<<At(DecomposerGenome, <<500, 240>>, pct, CALL_COOLDOWN),
              At(ForagerGenome, <<500, 240>>, pct, CALL_COOLDOWN),
              At(PredatorGenome, <<500, 240>>, pct, CALL_COOLDOWN)>>,
            << >>,
            <<Corpse(At(g, <<500, 240>>, 100, 0))>>) :
        g \in {ForagerGenome, PredatorGenome}, pct \in {50, 100} }

\* the amount consume returns, as line 702 receives it
Returned(corpse, amount) == corpse.energy - consume(corpse, amount).energy

InitCorpse ==
    /\ maps = ScentInit
    /\ hist = [n |-> 0, last |-> NoCall]
    /\ \E w \in CorpseWorlds :
          /\ cr = w.cr
          /\ creatures = w.creatures
          /\ foods = w.foods
          /\ corpses = w.corpses
          /\ score = w.score
    /\ phase = "corpse"
    /\ idx = 0
    /\ tick = 0
    /\ cur_dt = 0
    /\ newly_dead = << >>
    /\ last = NoUpdate

\* Corpse.consume(amount) on a corpse of the list
Consume ==
    /\ phase = "corpse"
    /\ tick < MaxConsumes
    /\ \E k \in DOMAIN corpses : \E amount \in ConsumeAmounts :
          /\ corpses' = [corpses EXCEPT ![k] = consume(@, amount)]
          /\ last' = [id |-> 0, tick |-> tick + 1, ran |-> TRUE, behavior |-> "consume",
                      mate |-> NoMate, drained |-> 0, pre |-> cr,
                      corpses |-> corpses, k |-> k, amount |-> amount,
                      returned |-> Returned(corpses[k], amount)]
    /\ tick' = tick + 1
    /\ UNCHANGED <<maps, hist, cr, creatures, foods, score, phase, idx, cur_dt, newly_dead>>

\* Creature.update, lines 141-147: the gather routine of a live creature
Gather ==
    /\ phase = "corpse"
    /\ tick < MaxConsumes
    /\ \E k \in DOMAIN creatures : \E in \in Inputs :
          LET W == [cr |-> cr, creatures |-> creatures, foods |-> foods,
                    corpses |-> corpses, score |-> score]
              dt == 30           \* a frame of 3 s
              W1 == Behave([W |-> W, behavior |-> "gather", escape |-> 0],
                           creatures[k], dt, in)
          IN /\ cr[creatures[k]].alive
             /\ cr' = W1.cr
             /\ creatures' = W1.creatures
             /\ foods' = W1.foods
             /\ corpses' = W1.corpses
             /\ score' = W1.score
             /\ last' = [id |-> creatures[k], tick |-> tick + 1, ran |-> TRUE,
                         behavior |-> "gather", mate |-> NoMate, drained |-> 0, pre |-> cr,
                         corpses |-> corpses, k |-> 0, amount |-> 0, returned |-> 0]
    /\ tick' = tick + 1
    /\ UNCHANGED <<maps, hist, phase, idx, cur_dt, newly_dead>>

\* the consumed energies handed to digest_and_poop, in hundredths: nothing,
\* just below and at 30 percent of a plant, just below and at a whole plant,
\* a plant and just below and at 30 percent of another, two plants and more
PoopAmounts == {0, 1199, 1200, 3999, 4000, 5199, 5200, 9000}

\* Creature.digest_and_poop(consumed_energy, foods), called by a decomposer
Poop ==
    /\ phase = "corpse"
    /\ tick < MaxConsumes
    /\ \E k \in DOMAIN creatures : \E consumed \in PoopAmounts :
          /\ cr[creatures[k]].alive
          /\ cr[creatures[k]].genome.is_decomposer
          /\ foods' = digest_and_poop([cr |-> cr, creatures |-> creatures, foods |-> foods,
                                       corpses |-> corpses, score |-> score],
                                      creatures[k], consumed).foods
          /\ last' = [id |-> creatures[k], tick |-> tick + 1, ran |-> TRUE,
                      behavior |-> "digest_and_poop", mate |-> NoMate, drained |-> 0,
                      pre |-> cr, foods |-> foods, consumed |-> consumed]
    /\ tick' = tick + 1
    /\ UNCHANGED <<maps, hist, cr, creatures, corpses, score, phase, idx, cur_dt, newly_dead>>

NextCorpse == Consume \/ Gather \/ Poop

SpecCorpse == InitCorpse /\ [][NextCorpse]_vars

\* ---- movement steps and the nest walls ----
MaxMoves == 2

\* a predator just above the aggression of 0.6 that makes one (the constructor
\* draws the aggression from uniform(0, 1))
MildPredatorGenome == [PredatorGenome EXCEPT !.aggression = 62]

\* rand_point() places a creature anywhere: a creature at any lattice point,
\* ready to mate or not, and a ready one of its kind in the middle of their nest
ZoneWorlds ==
    { World(<<Mature(g, p, [ready |-> ready, alive |-> TRUE], 0, FALSE),
              Mature(g, <<get_nest([genome |-> g]).x, get_nest([genome |-> g]).y>>,
                     [ready |-> TRUE, alive |-> TRUE], 0, FALSE)>>,
            << >>, << >>) :
        g \in {ForagerGenome, PredatorGenome, MildPredatorGenome, DecomposerGenome},
        p \in Points, ready \in BOOLEAN }

InitZone ==
    /\ maps = ScentInit
    /\ hist = [n |-> 0, last |-> NoCall]
    /\ \E w \in ZoneWorlds :
          /\ cr = w.cr
          /\ creatures = w.creatures
          /\ foods = w.foods
          /\ corpses = w.corpses
          /\ score = w.score
    /\ phase = "zone"
    /\ idx = 0
    /\ tick = 0
    /\ cur_dt = 0
    /\ newly_dead = << >>
    /\ last = NoUpdate

\* Creature.move(dt, nests) of a living creature, as the behaviours call it
MoveStep ==
    /\ phase = "zone"
    /\ tick < MaxMoves
    /\ \E k \in DOMAIN creatures, dt \in Dts, hd \in Headings :
          /\ cr[creatures[k]].alive
          /\ cr' = Moved([cr |-> cr, creatures |-> creatures, foods |-> foods,
                          corpses |-> corpses, score |-> score], creatures[k], dt, hd).cr
          /\ last' = [id |-> creatures[k], tick |-> tick + 1, ran |-> TRUE,
                      behavior |-> "move", mate |-> NoMate, drained |-> 0, pre |-> cr]
    /\ tick' = tick + 1
    /\ UNCHANGED <<maps, hist, creatures, foods, corpses, score, phase, idx, cur_dt,
                   newly_dead>>

\* Creature.try_mate as update calls it (lines 189-192): its moves are made
\* with move(1 / FPS), and the child it returns joins the population
MateStep ==
    /\ phase = "zone"
    /\ tick < MaxMoves
    /\ \E k \in DOMAIN creatures, draw \in Draws, hd \in Headings :
       \E r \in {try_mate([cr |-> cr, creatures |-> creatures, foods |-> foods,
                           corpses |-> corpses, score |-> score],
                          creatures[k], hd, draw)} :
          /\ cr[creatures[k]].alive
          /\ cr' = r.W.cr
          /\ creatures' = IF r.child # 0 THEN Append(creatures, r.child) ELSE creatures
          /\ last' = [id |-> creatures[k], tick |-> tick + 1, ran |-> TRUE,
                      behavior |-> "try_mate",
                      mate |-> [timeout |-> FALSE, drive |-> 0, before |-> cr,
                                after |-> r.W.cr, child |-> r.child],
                      drained |-> 0, pre |-> cr]
    /\ tick' = tick + 1
    /\ UNCHANGED <<maps, hist, foods, corpses, score, phase, idx, cur_dt, newly_dead>>

NextZone == MoveStep \/ MateStep

SpecZone == InitZone /\ [][NextZone]_vars

\* ---- the main loop kept running on worlds without anything to eat ----
\* a creature alone at a quarter of its energy: no food, no corpse, no prey,
\* no partner, no digestion under way
StarveWorlds ==
    { World(<<At(g, <<500, 300>>, 25, 0)>>, << >>, << >>) :
        g \in {ForagerGenome, PredatorGenome, DecomposerGenome} }

InitStarve ==
    /\ maps = ScentInit
    /\ hist = [n |-> 0, last |-> NoCall]
    /\ \E w \in StarveWorlds :
          /\ cr = w.cr
          /\ creatures = w.creatures
          /\ foods = w.foods
          /\ corpses = w.corpses
          /\ score = w.score
    /\ phase = "idle"
    /\ idx = 0
    /\ tick = 0
    /\ cur_dt = 0
    /\ newly_dead = << >>
    /\ last = NoUpdate

\* main line 67 and 110, in the loop `while running`: the next tick begins,
\* whatever the number of ticks before it (tick stops counting at MaxTicks)
KeepTicking ==
    /\ phase = "idle"
    /\ \E d \in Dts : cur_dt' = d
    /\ phase' = "pass"
    /\ idx' = 1
    /\ tick' = IF tick < MaxTicks THEN tick + 1 ELSE tick
    /\ newly_dead' = << >>
    /\ UNCHANGED <<maps, hist, cr, creatures, foods, corpses, score, last>>

NextStarve == KeepTicking \/ UpdateStep \/ EndTick

\* weak fairness of UpdateStep, its enabling condition written out: the for
\* loop over creatures goes on to its next iteration
UpdateFair ==
    \/ []<>(~(phase = "pass" /\ idx <= Len(creatures)))
    \/ []<><<UpdateStep>>_vars

\* the loop of main never stops by itself: a step that can be taken is taken
SpecStarve ==
    InitStarve /\ [][NextStarve]_vars
        /\ WF_vars(KeepTicking) /\ UpdateFair /\ WF_vars(EndTick)

(***************************************************************************)
(* Properties of the world (Spec)                                          *)
(***************************************************************************)
\* the population as a set of ids
Pop == {creatures[k] : k \in DOMAIN creatures}

Species(c) ==
    IF c.genome.is_decomposer THEN "decomposer"
    ELSE IF c.genome.aggression > 60 THEN "predator"
    ELSE "forager"

\* the cost fraction of try_mate, in thousandths
CostOf(c) ==
    IF c.genome.aggression > 60 THEN (MATING_COST * 6) \div 10 ELSE (MATING_COST * 8) \div 10

\* the last step was a live update that took the mate branch
MateRan == last.id # 0 /\ last.ran /\ last.behavior = "mate"

\* a and b stand on the same point inside a's home zone, in the heap h
Together(h, a, b) ==
    /\ h[a].x = h[b].x /\ h[a].y = h[b].y
    /\ contains(get_nest(h[a]), h[a])

\* C1 - partner symmetry: in every state, for every living agent A of the
\* population and every agent B, A.partner == B implies B.partner == A.
C1_PartnerSymmetry ==
    \A a \in Pop :
        (cr[a].alive /\ cr[a].partner # 0) => cr[cr[a].partner].partner = a

\* C2 - abandonment on timeout: after an update in which the mating-attempt
\* timer of a paired agent exceeded 8 s and no reproduction completed, the
\* agent's and its partner's partner references are both null and the agent's
\* mate_drive is half of what it was just before the timeout fired.
C2_AbandonOnTimeout ==
    (MateRan /\ last.mate.timeout /\ last.mate.child = 0) =>
        /\ cr[last.id].partner = 0
        /\ cr[last.pre[last.id].partner].partner = 0
        /\ cr[last.id].mate_drive = last.mate.drive \div 2

\* the scenario of C3 for the updated agent a and another agent b: before the
\* update both are alive, ready, unpaired, of one species, on one point inside
\* their home zone and full; a took the mate branch and both still stand
\* there when try_mate runs
C3_Case(a, b) ==
    /\ MateRan /\ last.id = a /\ b \in DOMAIN last.pre /\ a # b
    /\ last.pre[a].alive /\ last.pre[b].alive
    /\ last.pre[a].ready_to_mate /\ last.pre[b].ready_to_mate
    /\ last.pre[a].partner = 0 /\ last.pre[b].partner = 0
    /\ Species(last.pre[a]) = Species(last.pre[b])
    /\ Together(last.pre, a, b)
    /\ last.pre[a].energy = last.pre[a].energy_max
    /\ last.pre[b].energy = last.pre[b].energy_max
    /\ Together(last.mate.before, a, b)

\* what C3 promises of try_mate for the parents a and p
C3_Outcome(a, p) ==
    LET before == last.mate.before
        after == last.mate.after
        child == last.mate.child
    IN /\ child # 0
       /\ Len(after) = Len(before) + 1
       /\ after[a].energy = (before[a].energy * (1000 - CostOf(before[a]))) \div 1000
       /\ after[p].energy = (before[p].energy * (1000 - CostOf(before[a]))) \div 1000
       /\ ~after[a].ready_to_mate /\ ~after[p].ready_to_mate
       /\ after[child].generation
              = Max2(before[a].generation, before[p].generation) + 1

\* C3 - mating scenario: two alive, ready, unpaired agents of one species at
\* zero distance inside their home zone with full energy, whatever their
\* call_cooldown: the update in which one of them executes the mate branch
\* produces exactly one child, multiplies both parents' energy by (1 - cost),
\* leaves ready_to_mate false on both, and the child's generation is
\* max(parents) + 1.
C3_MatingScenario ==
    \A a \in DOMAIN cr :
        (\E b \in DOMAIN cr : C3_Case(a, b)) =>
            \E p \in DOMAIN cr : C3_Case(a, p) /\ C3_Outcome(a, p)

\* the precondition of C4 when try_mate runs for a: a and b are paired with
\* each other, alive, ready, inside their shared home zone and within the
\* distance threshold of a's species
C4_Case(a, b) ==
    LET h == last.mate.before
    IN /\ MateRan /\ last.id = a /\ b \in DOMAIN h /\ a # b
       /\ h[a].partner = b /\ h[b].partner = a
       /\ h[a].alive /\ h[b].alive
       /\ h[a].ready_to_mate /\ h[b].ready_to_mate
       /\ get_nest(h[a]) = get_nest(h[b])
       /\ contains(get_nest(h[a]), h[a]) /\ contains(get_nest(h[b]), h[b])
       /\ 100 * dist(h[a].x, h[a].y, h[b].x, h[b].y)
             <= radius(h[a]) * (IF h[a].genome.aggression > 60 THEN 4 ELSE 3)

\* C4 - mated transition: when A runs try_mate while mutually paired with B,
\* both alive and ready, both inside their shared home zone and within the
\* distance threshold, a child of A and B is produced, for every species.
C4_MatedTransition ==
    \A a, b \in DOMAIN cr :
        C4_Case(a, b) =>
            /\ last.mate.child # 0
            /\ ~last.mate.after[a].ready_to_mate
            /\ ~last.mate.after[b].ready_to_mate

\* C4 as the code has it: the transition holds for decomposers
C4_Decomposers ==
    \A a, b \in DOMAIN cr :
        (C4_Case(a, b) /\ Species(last.mate.before[a]) = "decomposer") =>
            /\ last.mate.child # 0
            /\ ~last.mate.after[a].ready_to_mate
            /\ ~last.mate.after[b].ready_to_mate

\* C5 - energy bounds: at every tick boundary, every agent of the population
\* has 0 <= energy <= energy_max.
C5_EnergyBounds ==
    phase = "idle" =>
        \A a \in Pop : 0 <= cr[a].energy /\ cr[a].energy <= cr[a].energy_max

\* a tick boundary after a predator has fed, paid the drain and digested up
\* to its maximum
C5_Witness ==
    /\ phase = "idle" /\ tick > 0
    /\ \E a \in Pop : /\ cr[a].digest_timer > 0
                      /\ cr[a].energy = cr[a].energy_max

\* the agent is dead, and gone from the population once the tick has ended
Removed(a) == ~cr[a].alive /\ (phase = "idle" => a \notin Pop)

\* C6 as stated - death on zero energy: an agent of any species whose energy
\* the drain of its update brought to 0 or below is dead from then on and is
\* absent from the population at the next tick boundary.
C6_Original ==
    \A a \in DOMAIN cr : cr[a].starved => Removed(a)

\* C6 as the code has it: the agent is dead and removed when its energy is 0
\* or below after the drain and the digestion of the same update; a forager
\* or a decomposer, which do not digest, when the drain brought it there.
C6_DeathOnZeroEnergy ==
    \A a \in DOMAIN cr :
        (cr[a].energy <= 0 \/ (cr[a].starved /\ cr[a].genome.aggression <= 60))
            => Removed(a)

\* a tick has ended in which the drain starved an agent of each species
C6_Witness ==
    /\ phase = "idle"
    /\ \E a \in DOMAIN cr : cr[a].starved /\ cr[a].energy <= 0 /\ Removed(a)
                            /\ Species(cr[a]) = "forager"
                            /\ last.id = a /\ last.drained = 0

\* C7 - deferred population mutation: while the pass over the population
\* runs, no child is appended to the population and no corpse is removed from
\* the corpses.
C7_DeferredMutation ==
    [][(phase = "pass" /\ phase' = "pass")
          => (creatures' = creatures /\ Len(corpses') >= Len(corpses))]_vars

\* C7, the consequence it names: a child is never updated in the tick it was
\* born in.
C7_ChildWaits == \A a \in DOMAIN cr : cr[a].updates = 0

(***************************************************************************)
(* Properties of the scent field (SpecScent)                               *)
(***************************************************************************)
Neigh4(r, c) == {<<r - 1, c>>, <<r + 1, c>>, <<r, c - 1>>, <<r, c + 1>>}
IsCorner(r, c) == r \in {0, rows - 1} /\ c \in {0, cols - 1}
InField(r, c) == 0 <= r /\ r < rows /\ 0 <= c /\ c < cols

\* the step "update" taken right after the single call emit(x, y, "food", 1.0)
\* on the all-zero field
FoodEmitThenUpdate(x, y) ==
    /\ hist.n = 1
    /\ hist.last = EmitCall(x, y, "food", 100)
    /\ hist'.n = 2
    /\ hist'.last.op = "update"

\* C8: after any sequence of emit (any type, position, strength, also negative
\* or above 1) and update calls, every cell of every scent grid lies in [0, 1].
C8_ScentBounds ==
    \A t \in ScentTypes : \A rc \in Cells : 0 <= maps[t][rc] /\ maps[t][rc] <= SCALE

\* an emit of strength 1.5 has been clamped to 1.0 after earlier calls
C8_Witness ==
    /\ hist.n >= 2
    /\ hist.last.op = "emit"
    /\ hist.last.s > 100
    /\ hist.last.t \in ScentTypes
    /\ InField(CellOf(hist.last.y), CellOf(hist.last.x))
    /\ maps[hist.last.t][<<CellOf(hist.last.y), CellOf(hist.last.x)>>] = SCALE

\* C9 as stated: after emit("food", 1.0) at an interior cell and one update,
\* each of the four orthogonal neighbours is positive and strictly smaller than
\* the emission cell.
C9_Original ==
    [][\A x \in EmitXs, y \in EmitYs :
         (FoodEmitThenUpdate(x, y) /\ IsInterior(CellOf(y), CellOf(x)))
         => \A nb \in Neigh4(CellOf(y), CellOf(x)) :
               /\ maps'["food"][nb] > 0
               /\ maps'["food"][nb] < maps'["food"][<<CellOf(y), CellOf(x)>>]]_vars

\* C9 amended: after emit("food", 1.0) at an interior cell and one update, each
\* orthogonal neighbour that is itself an interior cell is positive and strictly
\* smaller than the value the emission cell held before the update (0.9), yet
\* strictly larger than the emission cell's value after it; a neighbour in a
\* border row or column keeps the value 0.
C9_DiffusionPeak ==
    [][\A x \in EmitXs, y \in EmitYs :
         (FoodEmitThenUpdate(x, y) /\ IsInterior(CellOf(y), CellOf(x)))
         => \A nb \in Neigh4(CellOf(y), CellOf(x)) :
               IF IsInterior(nb[1], nb[2])
               THEN /\ maps'["food"][nb] > 0
                    /\ maps'["food"][nb] < maps["food"][<<CellOf(y), CellOf(x)>>]
                    /\ maps'["food"][nb] > maps'["food"][<<CellOf(y), CellOf(x)>>]
                    /\ maps'["food"][<<CellOf(y), CellOf(x)>>] > 0
               ELSE maps'["food"][nb] = 0]_vars

\* the field after emit("food", 1.0) at the centre cell and one update
C9_Witness ==
    /\ hist.n = 2
    /\ hist.last.op = "update"
    /\ maps = update(emit(ScentInit, 60, 60, "food", 100))
    /\ maps["food"][<<2, 1>>] > maps["food"][<<2, 2>>]

EmitThenUpdate(x, y, t) ==
    /\ hist.n = 1
    /\ hist.last = EmitCall(x, y, t, 100)
    /\ hist'.n = 2
    /\ hist'.last.op = "update"

\* positions inside the cell (r, c): its first, middle and last pixel
CellPoints(r, c) ==
    {<<c * CELL_SIZE + ox, r * CELL_SIZE + oy>> :
        ox \in {0, CELL_SIZE \div 2, CELL_SIZE - 1},
        oy \in {0, CELL_SIZE \div 2, CELL_SIZE - 1}}

\* in the maps m, sample_gradient at every position of the cell nb returns a
\* vector whose component along the axis from nb to the cell e is non-zero and
\* has the sign of that direction
Toward(m, t, nb, e) ==
    \A p \in CellPoints(nb[1], nb[2]) :
        LET g == sample_gradient(m, p[1], p[2], t)
        IN /\ g # NoGradient
           /\ e[2] > nb[2] => g[1] > 0
           /\ e[2] < nb[2] => g[1] < 0
           /\ e[1] > nb[1] => g[2] > 0
           /\ e[1] < nb[1] => g[2] < 0

\* C11 - gradient direction: after a single emit of strength 1.0 at an interior
\* cell of an all-zero grid, sample_gradient at any position of an orthogonally
\* adjacent cell that is not in a border row or column returns a vector with a
\* non-zero component pointing toward the emission cell, both right after the
\* emit and after one update.
C11_GradientDirection ==
    [][\A x \in EmitXs, y \in EmitYs, t \in EmitTypes \cap ScentTypes :
         (EmitThenUpdate(x, y, t) /\ IsInterior(CellOf(y), CellOf(x)))
         => \A nb \in Neigh4(CellOf(y), CellOf(x)) :
               IsInterior(nb[1], nb[2])
               => /\ Toward(maps, t, nb, <<CellOf(y), CellOf(x)>>)
                  /\ Toward(maps', t, nb, <<CellOf(y), CellOf(x)>>)]_vars

\* the field after emit("food", 1.0) at the centre cell and one update, where
\* the gradient sampled in the cell to its left points right
C11_Witness ==
    /\ hist.n = 2
    /\ hist.last.op = "update"
    /\ maps = update(emit(ScentInit, 60, 60, "food", 100))
    /\ sample_gradient(maps, 30, 60, "food") # NoGradient
    /\ sample_gradient(maps, 30, 60, "food")[1] > 0

\* the cell (r, c) lies in the first or last row or column, or outside the grid
OnBorderOrOutside(r, c) == r <= 0 \/ r >= rows - 1 \/ c <= 0 \/ c >= cols - 1

\* the central differences (right - left, below - above) of the layer at (r, c)
CentralDiff(grid, r, c) ==
    << grid[<<r, c + 1>>] - grid[<<r, c - 1>>], grid[<<r + 1, c>>] - grid[<<r - 1, c>>] >>

Bred == last.id # 0 /\ last.mate.before # << >> /\ last.mate.child # 0

\* the two parents of the child: the caller and the creature try_mate charged
\* the mating cost together with it
PartnerOf(a) ==
    CHOOSE p \in DOMAIN last.mate.before :
        /\ p # a
        /\ last.mate.after[p].energy # last.mate.before[p].energy
            \/ (last.mate.before[p].ready_to_mate /\ ~last.mate.after[p].ready_to_mate)

\* C13: whatever the parents' traits (inside the ranges or not) and whatever
\* the noise drawn, every trait of a child returned by try_mate lies in its
\* range: vision 40..160, speed 0.5..1.6, size 0.5..1.6, metabolism 0.5..1.5,
\* aggression 0..1, toxin 0.4..2.0 (traits in hundredths)
C13_ChildTraitBounds ==
    Bred =>
        LET g == last.mate.after[last.mate.child].genome
        IN /\ 4000 <= g.vision /\ g.vision <= 16000
           /\ 50 <= g.speed /\ g.speed <= 160
           /\ 50 <= g.size /\ g.size <= 160
           /\ 50 <= g.metabolism /\ g.metabolism <= 150
           /\ 0 <= g.aggression /\ g.aggression <= 100
           /\ 40 <= g.toxin /\ g.toxin <= 200

\* a child of a predator whose metabolism is below the range and whose toxin
\* is zero: both traits of the child are brought back to the lower bound
C13_Witness ==
    /\ Bred
    /\ last.mate.before[last.id].genome.metabolism < 50
    /\ last.mate.before[last.id].genome.toxin < 40
    /\ last.mate.after[last.mate.child].genome.metabolism = 50
    /\ last.mate.after[last.mate.child].genome.toxin = 40

\* C14: for every pair of parents that try_mate lets reproduce, the flag
\* is_decomposer of the child it returns is the logical AND of the flags of
\* the two parents
C14_DecomposerInheritance ==
    Bred =>
        last.mate.after[last.mate.child].genome.is_decomposer
            = (last.mate.before[last.id].genome.is_decomposer
               /\ last.mate.before[PartnerOf(last.id)].genome.is_decomposer)

\* a forager has bred with a decomposer standing in the prey nest: the flags
\* of the parents differ and the child is no decomposer
C14_Witness ==
    /\ Bred
    /\ ~last.mate.before[last.id].genome.is_decomposer
    /\ last.mate.before[PartnerOf(last.id)].genome.is_decomposer
    /\ ~last.mate.after[last.mate.child].genome.is_decomposer

\* the creature stands inside its own home zone, the nest get_nest returns
InHomeZone(c) == contains(get_nest(c), c)

\* C15: try_mate returns a child only if both parents are alive and
\* ready_to_mate and each of them is inside its own home zone when it runs
C15_ReproductionLocation ==
    Bred =>
        \A p \in {last.id, PartnerOf(last.id)} :
            /\ last.mate.before[p].alive
            /\ last.mate.before[p].ready_to_mate
            /\ InHomeZone(last.mate.before[p])

\* the greatest distance at which the initiator may reproduce, in hundredths
\* of a pixel: 3 times its radius, 4 times for a predator
MateThreshold(c) == IF c.genome.aggression > 60 THEN 4 * radius(c) ELSE 3 * radius(c)

\* C16: try_mate returns a child only if the two parents are no farther
\* apart than the threshold of the initiator, whatever the species
C16_ReproductionDistance ==
    Bred =>
        LET self == last.mate.before[last.id]
            partner == last.mate.before[PartnerOf(last.id)]
        IN 10000 * Dist2(self.x, self.y, partner.x, partner.y)
              <= MateThreshold(self) * MateThreshold(self)

\* C17: right after try_mate returned a child, both parents have no partner,
\* no heard call, calling and responding false, mate_drive 0, ready_to_mate
\* false and a positive call_cooldown, and no other creature holds a partner
\* reference to either of them
C17_PostMatingReset ==
    Bred =>
        LET after == last.mate.after
            parents == {last.id, PartnerOf(last.id)}
        IN /\ \A p \in parents :
                 /\ after[p].partner = 0
                 /\ after[p].heard_call = 0
                 /\ ~after[p].calling
                 /\ ~after[p].responding
                 /\ after[p].mate_drive = 0
                 /\ ~after[p].ready_to_mate
                 /\ after[p].call_cooldown > 0
           /\ \A q \in DOMAIN after : q \notin parents => after[q].partner \notin parents

(***************************************************************************)
(* Properties of decide_behavior (SpecCalls)                               *)
(***************************************************************************)
\* decide_behavior has just run for the creature last.id
HasDecided == last.id # 0 /\ "escape" \in DOMAIN last

\* the creature is a decomposer whose escape score exceeds the toxin threshold
ToxinTriggered(c, escape_p) == c.genome.is_decomposer /\ escape_p > TOXIN_THRESHOLD

\* C18: when decide_behavior has run for a creature whose energy is below 35
\* percent of energy_max, it selected gather unless the creature is a
\* decomposer whose escape score exceeds the toxin threshold; and if the
\* creature was paired, it and its former partner have no partner on return
C18_StarvationOverride ==
    (HasDecided /\ 100 * last.pre[last.id].energy < 35 * last.pre[last.id].energy_max) =>
        /\ ~ToxinTriggered(last.pre[last.id], last.score) => last.behavior = "gather"
        /\ last.pre[last.id].partner # 0 =>
              /\ cr[last.id].partner = 0
              /\ cr[last.pre[last.id].partner].partner = 0

\* a paired forager at 34 percent of its energy with full mate drive and a
\* predator on top of it chose gather and left its partner
C18_Witness ==
    /\ HasDecided
    /\ 100 * last.pre[last.id].energy = 34 * last.pre[last.id].energy_max
    /\ ~last.pre[last.id].genome.is_decomposer
    /\ last.pre[last.id].mate_drive = 1000
    /\ last.score = 1000
    /\ last.pre[last.id].partner # 0
    /\ last.pre[last.pre[last.id].partner].partner = last.id
    /\ last.behavior = "gather"
    /\ cr[last.pre[last.id].partner].partner = 0

\* C19: when decide_behavior has run for a decomposer whose escape score
\* exceeds the toxin threshold, it selected escape, whatever the energy and
\* the mate drive (also when the decomposer is full or starving)
C19_EscapeDominance ==
    (HasDecided /\ ToxinTriggered(last.pre[last.id], last.score)) => last.behavior = "escape"

\* a starving decomposer with full mate drive chose escape
C19_Witness ==
    /\ HasDecided
    /\ ToxinTriggered(last.pre[last.id], last.score)
    /\ 100 * last.pre[last.id].energy < 35 * last.pre[last.id].energy_max
    /\ last.pre[last.id].mate_drive = 1000
    /\ last.behavior = "escape"
    /\ last.escape = 1800

\* the living creatures of the heap h that threaten me and that it sees: big
\* enough, aggressive, sharing no safe zone with it and within its vision
VisibleThreats(h, me) ==
    {q \in DOMAIN h :
        /\ q # me
        /\ h[q].alive
        /\ ~is_safe_zone(h[me], h[q])
        /\ 100 * h[q].genome.size >= h[me].genome.size * PREDATION_SIZE_RATIO
        /\ h[q].genome.aggression > 60
        /\ 100 * dist(h[me].x, h[me].y, h[q].x, h[q].y) < h[me].genome.vision}

\* clamp(1 - d / vision, 0, 1) for the nearest of them, in thousandths
NearestThreatScore(h, me) ==
    LET T == VisibleThreats(h, me)
        near == CHOOSE q \in T : \A o \in T :
                    dist(h[me].x, h[me].y, h[q].x, h[q].y)
                        <= dist(h[me].x, h[me].y, h[o].x, h[o].y)
    IN IF T = {} THEN 0
       ELSE clamp(1000 - (100000 * dist(h[me].x, h[me].y, h[near].x, h[near].y))
                            \div h[me].genome.vision, 0, 1000)

\* C20: the escape score decide_behavior obtained is clamp(1 - d/vision, 0, 1)
\* for the distance d to the nearest living visible threat, whatever the
\* order of the creatures in the list, and 0 when there is no such threat
C20_NearestThreat ==
    HasDecided => last.score = NearestThreatScore(last.pre, last.id)

(***************************************************************************)
(* Properties of broadcast_call (SpecCalls)                                *)
(***************************************************************************)
\* update has just reached its lines 172-174 for the creature last.id
HasCalled == last.id # 0 /\ last.behavior = "broadcast_call"

\* C21: the calling flag of a creature becomes true only if the creature is
\* then alive, ready_to_mate, unpaired, off cooldown (call_cooldown <= 0) and
\* inside its own home zone
C21_CallingPrecondition ==
    (HasCalled /\ ~last.pre[last.id].calling /\ cr[last.id].calling) =>
        /\ last.pre[last.id].alive
        /\ last.pre[last.id].ready_to_mate
        /\ last.pre[last.id].partner = 0
        /\ last.pre[last.id].call_cooldown <= 0
        /\ InHomeZone(last.pre[last.id])

\* the creatures of the population whose partner is a
Suitors(a) == {creatures[k] : k \in {j \in DOMAIN creatures : cr[creatures[j]].partner = a}}

\* C26: one broadcast_call pairs the caller with at most one responder:
\* after it at most one creature has the caller for partner, and that
\* creature is the caller's partner, also when several ready unpaired
\* creatures of its species are within call range
C26_SingleResponder ==
    (HasCalled /\ ~last.pre[last.id].calling /\ cr[last.id].calling) =>
        /\ Cardinality(Suitors(last.id)) <= 1
        /\ Suitors(last.id) \subseteq {cr[last.id].partner}

(***************************************************************************)
(* Properties of the ticks of SpecLife                                     *)
(***************************************************************************)
\* the agents of the population list
Population == {creatures[k] : k \in DOMAIN creatures}

\* C22: at a tick boundary no live agent of the population holds a partner
\* reference to an agent that is dead or was removed from the population:
\* when a paired agent dies, by starvation or by a predator, the partner of
\* the survivor is null by the end of that tick, whatever the survivor chose
\* to do
C22_PartnerDeathBreaksPairing ==
    phase = "idle" =>
        \A a \in Population :
            (cr[a].alive /\ cr[a].partner # 0) =>
                (cr[a].partner \in Population /\ cr[cr[a].partner].alive)

\* C23: every agent of the population whose alive flag went from true to false
\* during the tick (the dead are removed at the end of every tick, so these are
\* the dead of the list) gives exactly one corpse, added by the end of the
\* tick: the corpses after the tick are the corpses that survive the pruning
\* and one more for each of the dead, at the place where it died
C23_CorpseOnDeath ==
    [][(phase = "pass" /\ phase' = "idle") =>
          LET dead == {a \in Population : ~cr[a].alive}
              kept == SelectSeq(corpses, HasEnergy)
              added == SubSeq(corpses', Len(kept) + 1, Len(corpses'))
          IN /\ Len(corpses') >= Len(kept)
             /\ Len(added) = Cardinality(dead)
             /\ \A a \in dead :
                   Cardinality({k \in DOMAIN added :
                                   added[k].x = cr[a].x /\ added[k].y = cr[a].y}) >= 1]_vars

(***************************************************************************)
(* Properties of the constructor (SpecLife)                                *)
(***************************************************************************)
\* C24: constructing an agent with a genome that lacks any one of the traits
\* size, speed, vision, metabolism, aggression, toxin and is_decomposer fails
\* at construction
C24_IncompleteGenomeRejected ==
    (last.behavior = "__init__" /\ DOMAIN last.genome # Traits) => last.raised

(***************************************************************************)
(* Properties of emit (SpecScent)                                          *)
(***************************************************************************)
\* the call just made was an emit
Emitted(h) == h.last.op = "emit"

\* the emit names a layer of the field and a position inside the grid
EmitLands(e) ==
    /\ e.t \in ScentTypes
    /\ 0 <= e.x /\ e.x < FieldWidth
    /\ 0 <= e.y /\ e.y < FieldHeight

\* C25: an emit of a known scent type at a position inside the grid sets the
\* one cell under the position, in the grid of that type, to
\* clamp(old + 0.9 * strength, 0, 1) and leaves every other cell and every
\* other grid unchanged; an emit of an unknown type (the decomposers' own
\* "decomp") or at a position outside the grid changes nothing
C25_EmitEffectAndFrame ==
    [][(hist'.n = hist.n + 1 /\ Emitted(hist')) =>
          LET e == hist'.last
              cell == <<e.y \div CELL_SIZE, e.x \div CELL_SIZE>>
              new == clamp(maps[e.t][cell] + (9 * e.s * SCALE) \div 1000, 0, SCALE)
          IN IF EmitLands(e)
             THEN /\ maps'[e.t][cell] = new
                  /\ \A t \in ScentTypes \ {e.t} : maps'[t] = maps[t]
                  /\ \A rc \in Cells \ {cell} : maps'[e.t][rc] = maps[e.t][rc]
             ELSE maps' = maps]_vars

\* an emit inside the grid has left its cell strictly between the bounds of
\* the clamp, at a value to which the scent that was there before contributes
C25_Witness ==
    /\ Emitted(hist)
    /\ EmitLands(hist.last)
    /\ LET v == maps[hist.last.t][<<hist.last.y \div CELL_SIZE, hist.last.x \div CELL_SIZE>>]
       IN 0 < v /\ v < SCALE /\ v # (9 * hist.last.s * SCALE) \div 1000

\* a and b are alive, in the population and paired with each other
PairedUp(a, b) ==
    /\ a \in Population /\ b \in Population /\ a # b
    /\ cr[a].alive /\ cr[b].alive
    /\ cr[a].partner = b /\ cr[b].partner = a

\* the pairing of a and b was formed by a call made in the tick that just
\* ended: the call timer of the caller, set to CALL_DURATION when the call
\* goes out (line 318) and counted down at the start of every update of the
\* caller, has not been counted down yet
FormedThisTick(a, b) ==
    cr[a].call_timer = CALL_DURATION \/ cr[b].call_timer = CALL_DURATION

\* C27: a pairing does not outlast 8 s without reproduction, whatever the
\* partners choose to do: at the end of a tick that lasted more than 8 s, no
\* two live agents are still paired with each other unless their pairing was
\* formed in that tick (a reproduction clears the pairing of both parents)
C27_BoundedPairingDuration ==
    (phase = "idle" /\ cur_dt > 80) =>
        \A a \in Population : \A b \in Population :
            PairedUp(a, b) => FormedThisTick(a, b)

\* the agents that were alive before the last update and are dead after it,
\* the updated agent aside: those another agent has killed
Killed ==
    IF last.id = 0 \/ ~last.ran THEN {}
    ELSE {v \in DOMAIN last.pre \ {last.id} : last.pre[v].alive /\ ~cr[v].alive}

\* C28: an agent's alive flag is set to false by another agent only if the
\* killer is not a decomposer, has aggression above 0.6 and is running its
\* gather routine, the victim's size times PREDATION_SIZE_RATIO is below the
\* killer's size, the two are in contact (no farther apart than the sum of
\* their radii) and they do not share a safe zone; foragers and decomposers
\* never kill
C28_KillSafety ==
    \A v \in Killed :
        LET killer == last.pre[last.id]
            victim == last.pre[v]
        IN /\ ~killer.genome.is_decomposer
           /\ killer.genome.aggression > 60
           /\ last.behavior = "gather"
           /\ victim.genome.size * PREDATION_SIZE_RATIO < 100 * killer.genome.size
           /\ 100 * dist(killer.x, killer.y, victim.x, victim.y)
                 <= radius(killer) + radius(victim)
           /\ ~is_safe_zone(killer, victim)

\* a predator has just killed
C28_Witness == Killed # {}

\* an update of the current tick has just run for a live agent
JustUpdated == last.id # 0 /\ last.ran /\ last.tick = tick

\* the updated agent released its toxin in this update: its cooldown stands at
\* TOXIN_DURATION, which the countdown of lines 129-130 has not touched yet
Released == JustUpdated /\ cr[last.id].toxin_cooldown = TOXIN_DURATION

\* C29: a toxin is released only by a decomposer and only when its
\* toxin_cooldown (after the countdown of the update) is at most 0; the
\* release sets the cooldown to TOXIN_DURATION, and the cooldown then only
\* counts the time of the agent's own updates down, so two releases of one
\* decomposer are at least TOXIN_DURATION apart; no other agent's cooldown
\* moves, and an agent that is no decomposer never has one
C29_ToxinCooldown ==
    JustUpdated =>
        LET pre == last.pre[last.id]
            post == cr[last.id]
        IN /\ Released => /\ post.genome.is_decomposer
                          /\ pre.toxin_cooldown <= cur_dt
           /\ ~Released =>
                 post.toxin_cooldown = IF pre.toxin_cooldown > 0
                                       THEN pre.toxin_cooldown - cur_dt
                                       ELSE pre.toxin_cooldown
           /\ \A i \in DOMAIN last.pre \ {last.id} :
                 cr[i].toxin_cooldown = last.pre[i].toxin_cooldown
           /\ \A i \in DOMAIN cr :
                 ~cr[i].genome.is_decomposer => cr[i].toxin_cooldown = 0

\* a decomposer releases its toxin for the second time, its cooldown elapsed
C29_Witness ==
    /\ Released
    /\ last.pre[last.id].toxin_cooldown = TOXIN_DURATION

\* a live predator: the agents the hibernation of lines 224-236 applies to
IsPredator(c) == ~c.genome.is_decomposer /\ c.genome.aggression > 60

\* the energy is at most 20 percent of energy_max
Hibernating(c) == 100 * c.energy <= 20 * c.energy_max

\* C30 as stated, for the first tick (n = 1): a predator of the initial
\* population that is alive at the end of the tick with at most 20 percent of
\* its energy has had its metabolism multiplied by 0.7 in that tick
C30_Original ==
    (phase = "idle" /\ tick = 1) =>
        \A a \in Population :
            (cr[a].born = 0 /\ cr[a].alive /\ IsPredator(cr[a]) /\ Hibernating(cr[a])) =>
                cr[a].genome.metabolism = (PredatorGenome.metabolism * 7) \div 10

\* C30, amended: every update of a live predator that leaves its energy, after
\* drain and digestion, at or below 20 percent of energy_max multiplies its
\* metabolism by 0.7; every other update leaves the metabolism as it was; no
\* update changes the metabolism of another agent, so a decay is never
\* restored and nothing bounds it from below
C30_HibernationDecay ==
    JustUpdated =>
        /\ IsPredator(last.pre[last.id]) =>
              cr[last.id].genome.metabolism =
                 IF Hibernating(cr[last.id])
                 THEN (last.pre[last.id].genome.metabolism * 7) \div 10
                 ELSE last.pre[last.id].genome.metabolism
        /\ ~IsPredator(last.pre[last.id]) =>
              cr[last.id].genome.metabolism = last.pre[last.id].genome.metabolism
        /\ \A i \in DOMAIN last.pre \ {last.id} :
              cr[i].genome.metabolism = last.pre[i].genome.metabolism

\* a predator hibernates for the second time: its metabolism has been
\* multiplied by 0.7 twice
C30_Witness ==
    /\ JustUpdated
    /\ IsPredator(cr[last.id])
    /\ Hibernating(cr[last.id])
    /\ cr[last.id].alive
    /\ last.pre[last.id].genome.metabolism = (PredatorGenome.metabolism * 7) \div 10
    /\ cr[last.id].genome.metabolism = (((PredatorGenome.metabolism * 7) \div 10) * 7) \div 10

(***************************************************************************)
(* Properties of the mate drive (SpecLife)                                 *)
(***************************************************************************)
\* the mate drive of c after the accumulation of line 108 over dt
Accumulated(c, dt) == clamp(c.mate_drive + MATE_DRIVE_RATE * dt, 0, 1000)

\* C31: the mate drive of every agent lies in [0, 1.0] in every state, and
\* every update of a live agent first raises its mate drive by
\* MATE_DRIVE_RATE x dt, clamped to the cap, whichever behaviour is then
\* chosen: after an update that chose escape or gather the drive is the
\* accumulated one, and an update that chose mate entered the mate branch
\* with the accumulated one
C31_MateDriveBounds ==
    /\ \A i \in DOMAIN cr : 0 <= cr[i].mate_drive /\ cr[i].mate_drive <= 1000
    /\ JustUpdated =>
          IF last.behavior = "mate"
          THEN last.mate.drive = Accumulated(last.pre[last.id], cur_dt)
          ELSE cr[last.id].mate_drive = Accumulated(last.pre[last.id], cur_dt)

\* an update that chose escape has raised the drive of an agent that had
\* built some up before
C31_Witness ==
    /\ JustUpdated
    /\ last.behavior = "escape"
    /\ last.pre[last.id].mate_drive > 0
    /\ cr[last.id].mate_drive > last.pre[last.id].mate_drive

(***************************************************************************)
(* Properties of the dead (SpecLife)                                       *)
(***************************************************************************)
\* C32: an update called on an agent whose alive flag is false changes
\* nothing (the agent, the other agents, the population, the foods, the
\* corpses, the scores and the scent field stay as they are; the nests are a
\* constant layout), so an agent killed earlier in the pass of a tick does
\* nothing in that tick; and the alive flag of no agent returns to true
C32_DeadAgentsInert ==
    [][/\ (/\ phase = "pass"
           /\ idx <= Len(creatures)
           /\ idx' = idx + 1
           /\ ~cr[creatures[idx]].alive)
          => UNCHANGED <<maps, cr, creatures, foods, corpses, score, newly_dead>>
       /\ \A i \in DOMAIN cr : ~cr[i].alive => ~cr'[i].alive]_vars

\* update has just been called on an agent that another agent killed earlier
\* in the pass
C32_Witness ==
    /\ last.id # 0
    /\ last.tick = tick
    /\ ~last.ran
    /\ ~cr[last.id].alive
    /\ ~cr[last.id].starved

(***************************************************************************)
(* Properties of corpses (SpecCorpse)                                      *)
(***************************************************************************)
\* C33: after any sequence of consume calls with non-negative amounts the
\* energy of a corpse lies in [0, max_energy] and the corpse is alive exactly
\* when its energy is positive; each call returns min(amount, energy) and
\* lowers the energy by what it returns, so the energy never rises; and the
\* corpses change in a gather routine only when a decomposer runs it
C33_CorpseEnergy ==
    /\ \A k \in DOMAIN corpses :
          /\ 0 <= corpses[k].energy
          /\ corpses[k].energy <= corpses[k].max_energy
          /\ corpses[k].alive <=> corpses[k].energy > 0
    /\ last.behavior = "consume" =>
          /\ last.returned = Min2(last.amount, last.corpses[last.k].energy)
          /\ corpses[last.k].energy = last.corpses[last.k].energy - last.returned
          /\ corpses[last.k].energy <= last.corpses[last.k].energy
    /\ (last.behavior = "gather" /\ corpses # last.corpses) =>
          cr[last.id].genome.is_decomposer

\* a corpse that had been eaten from before is exhausted by a call that asks
\* for more than is left
C33_Witness ==
    /\ last.behavior = "consume"
    /\ last.corpses[last.k].energy < last.corpses[last.k].max_energy
    /\ last.corpses[last.k].energy > 0
    /\ last.amount > last.corpses[last.k].energy
    /\ ~corpses[last.k].alive

\* the sum of the energies of a sequence of foods
RECURSIVE TotalEnergy(_)
TotalEnergy(fs) == IF fs = << >> THEN 0 ELSE Head(fs).energy + TotalEnergy(Tail(fs))

\* the foods the last call appended
Spawned == SubSeq(foods, Len(last.foods) + 1, Len(foods))

\* C34: for a consumed amount c >= 0, digest_and_poop appends foods (the foods
\* that were there stay) whose energies each lie in
\* [0.3 x PLANT_SPAWN_ENERGY, PLANT_SPAWN_ENERGY] and sum to at most c, the
\* remainder c - total being strictly below 0.3 x PLANT_SPAWN_ENERGY; nothing
\* is spawned when c is below that threshold
C34_ExcretionAccounting ==
    last.behavior = "digest_and_poop" =>
        /\ Len(foods) >= Len(last.foods)
        /\ SubSeq(foods, 1, Len(last.foods)) = last.foods
        /\ \A k \in DOMAIN Spawned :
              /\ 10 * Spawned[k].energy >= 3 * PLANT_SPAWN_ENERGY
              /\ Spawned[k].energy <= PLANT_SPAWN_ENERGY
        /\ TotalEnergy(Spawned) <= last.consumed
        /\ 10 * (last.consumed - TotalEnergy(Spawned)) < 3 * PLANT_SPAWN_ENERGY
        /\ 10 * last.consumed < 3 * PLANT_SPAWN_ENERGY => Spawned = << >>

\* a whole plant is spawned and a remainder just below 30 percent of a plant
\* is not converted
C34_Witness ==
    /\ last.behavior = "digest_and_poop"
    /\ Len(Spawned) = 1
    /\ Spawned[1].energy = PLANT_SPAWN_ENERGY
    /\ last.consumed > PLANT_SPAWN_ENERGY

\* c is outside the wall of every nest it may not enter: not closer to the
\* centre than the nest's radius plus its own
Outside(c) ==
    \A k \in DOMAIN nests :
        ~can_enter(c, nests[k]) =>
            100 * dist(nests[k].x, nests[k].y, c.x, c.y) >= 100 * nests[k].radius + radius(c)

\* C35: after a movement step of an agent (a move of a behaviour, a move
\* inside try_mate by an agent that stood outside the walls, the first move of
\* a newborn child) the agent is inside no nest it is not permitted to enter
C35_ZoneExclusion ==
    /\ last.behavior = "move" => Outside(cr[last.id])
    /\ last.behavior = "try_mate" =>
          /\ Outside(last.pre[last.id]) => Outside(cr[last.id])
          /\ last.mate.child # 0 => Outside(cr[last.mate.child])

\* the deliveries the nests have counted
Delivered == score["prey"] + score["predator"] + score["decomposer"]

\* the agents of the population that carry a food
Carriers == {k \in DOMAIN creatures : cr[creatures[k]].carrying}

\* the foods that were picked up or eaten
Taken == {k \in DOMAIN foods : ~foods[k].alive}

\* C36: a food is picked up or eaten at most once: the deliveries counted by
\* the nests plus the agents carrying a food never exceed the foods with
\* alive = False, and an agent that has just run its food cycle without
\* carrying holds no food with alive = False as its target
C36_FoodConservation ==
    /\ Delivered + Cardinality(Carriers) <= Cardinality(Taken)
    /\ (JustUpdated /\ last.behavior = "gather" /\ ~cr[last.id].carrying
          /\ cr[last.id].target_food # 0)
          => foods[cr[last.id].target_food].alive

\* a food was delivered and another is being carried, and every food taken is
\* accounted for
C36_Witness ==
    /\ Delivered >= 1
    /\ Cardinality(Carriers) >= 1
    /\ Delivered + Cardinality(Carriers) = Cardinality(Taken)
    /\ \E k \in DOMAIN foods : foods[k].alive

\* C37: under continued ticking with positive dt an agent of any species that
\* receives no energy gain (here: alone in a world without food, corpse or
\* prey, nothing being digested) eventually has alive = False
C37_StarvationInevitable == <>(\A i \in DOMAIN cr : ~cr[i].alive)

\* C38: one update call does not increase the sum of the cells of any scent
\* grid, whatever the grids hold in [0, 1], non-zero border cells included
C38_UpdateNeverCreatesScent ==
    [][(hist'.n = hist.n + 1 /\ hist'.last.op = "update")
         => \A t \in ScentTypes : Mass(maps'[t]) <= Mass(maps[t])]_vars

=========================================================================
